---- MODULE Spec2Model ----
(***************************************************************************)
(* Model of the conversation core of ashron's streaming TUI:               *)
(*   internal/tui/simple_app.go     SimpleModel.Update and its helpers     *)
(*   internal/tui/stream_simple.go  SendMessage, processMessage,           *)
(*                                  processStreamNew, executePendingTools  *)
(*   internal/tools/executor.go     Executor.Execute                       *)
(*   internal/context/manager.go    GetTokenUsage, Compact                 *)
(*   internal/api (client)          Client.StreamChatCompletion            *)
(*   internal/tools                 ExecuteCommand, GitGrep, GitLsFiles,   *)
(*                                  the tool registry and ListTools        *)
(*                                                                         *)
(* Strings of the program are sequences of one-character strings, so that  *)
(* concatenation and length are computed, "" is <<>>.  Call ids are small   *)
(* integers, 0 standing for the empty id.                                  *)
(*                                                                         *)
(* Bubble Tea runs Update on one event loop and every tea.Cmd on its own   *)
(* goroutine; a command's return value is delivered to Update as a         *)
(* message.  The commands read and write the fields of SimpleModel         *)
(* without synchronisation; the model interleaves them at the granularity  *)
(* of the statements that touch those fields.                              *)
(***************************************************************************)
EXTENDS Integers, Sequences, FiniteSets, TLC

VARIABLES
    \* ---- SimpleModel (simple_app.go:24-72) ----
    messages,            \* m.messages
    pendingToolCalls,    \* m.pendingToolCalls
    waitingForApproval,  \* m.waitingForApproval
    loading,             \* m.loading
    err,                 \* m.err != nil
    textarea,            \* m.textarea.Value()
    \* ---- commands started by Update, one goroutine each ----
    cmds,
    \* ---- history variables ----
    executed,            \* log of the Executor.Execute invocations
    awaiting,            \* the batch the approval gate blocked on
    accepted,            \* ids of the calls of a batch accepted with y
    \* ---- the tool-call assembler of processStreamNew run on its own ----
    asmSt,               \* [byIndex, args]: toolCallsByIndex, toolCallArgs
    asmSeen,             \* the fragments consumed so far, with their slot
    asmOut,              \* the finalized toolCalls
    asmDone,             \* "open", "finished" (terminal reason seen) or "closed"
    \* ---- Manager.Compact run on its own ----
    cmpIn,               \* the history handed to Compact
    cmpMax,              \* config.MaxMessages of the run
    cmpOut,              \* the history Compact returned
    cmpDone,             \* Compact has returned
    cmpAgain,            \* the history a second Compact returned for cmpOut
    cmpAgainDone,        \* the second Compact has returned
    cmpStrategy,         \* the strategy CompactWithStrategy was called with
    cmpStratOut,         \* the history CompactWithStrategy returned for cmpIn
    \* ---- one streaming request: decoder goroutine and its consumer ----
    wBody,               \* the lines of the response body
    wEnd,                \* what ReadString returns after the last line
    wPos,                \* lines read so far
    wpc,                 \* decoder: "idle", "read", "send", "sendLast", "done"
    wEv,                 \* the event the decoder is handing over
    wClosed,             \* calls of resp.Body.Close()
    wcpc,                \* consumer: "idle", "range", "returned", "handled"
    wcMsg,               \* the message processStreamNew returned
    wContent,            \* fullContent
    wAsm,                \* toolCallsByIndex, toolCallArgs
    wPending,            \* m.pendingToolCalls
    wxpc,                \* executePendingTools: "none", "start", "ran"
    \* ---- turns of Model.processStream that end in the fallback parser ----
    xText,               \* fullContent at the terminal reason, as tokens
    xParsed,             \* what parseXMLToolCalls returned for xText
    xCalls,              \* m.pendingToolCalls
    xMessages,           \* m.messages
    xLog,                \* the calls executed, each with the output supplied
    xTurn,               \* turns so far
    xpc,                 \* "idle", "finish", "execute", "continue", "done"
    \* ---- one call of ExecuteCommand: caller, goroutine and subprocesses ----
    epc,                 \* caller: "idle", "select", "returned"
    egpc,                \* goroutine: "none", "start", "wait", "sendOut", "sendErr", "done"
    eProcess,            \* cmd.Process != nil
    eSh,                 \* the sh process: "none", "running", "exited", "failed", "killed"
    eChildren,           \* processes sh has started that are still running
    eOut,                \* bytes sh and its children have written
    eTimer,              \* "none", "armed", "fired", "stopped"
    eOutput,             \* the channel output
    eErrChan,            \* the channel errChan
    eResult,             \* the api.ToolResult returned
    \* ---- the tool registry: listing, offer to the model, dispatch ----
    tListing,            \* the output of the last call of ListTools
    tOffered,            \* the tools sent with the last request
    tCalls,              \* the calls the model answered with
    tResults,            \* what Executor.Execute returned for them
    \* ---- one call of GitGrep or GitLsFiles: caller, goroutine, git ----
    gTool,               \* "none", "git_grep", "git_ls_files"
    gpc,                 \* caller: "idle", "select", "returned"
    ggpc,                \* goroutine: "none", "start", "wait", "send", "done"
    gProc,               \* git: "none", "nostart", "running", "exit0", "exit1",
                         \* "exit2", "exit128", "killed"
    gOut,                \* bytes git has written
    gTimer,              \* "none", "armed", "fired", "stopped"
    gOutput,             \* the channel output
    gErrChan,            \* the channel errChan
    gResult,             \* the api.ToolResult returned
    \* ---- start-up: SimpleModel.Init ----
    sessionMessages,     \* m.session.Messages
    agentsMD             \* "unread", "absent", "found": what ReadAgentsMD met

vars == <<messages, pendingToolCalls, waitingForApproval, loading, err,
          textarea, cmds, executed, awaiting, accepted,
          asmSt, asmSeen, asmOut, asmDone,
          cmpIn, cmpMax, cmpOut, cmpDone, cmpAgain, cmpAgainDone,
          cmpStrategy, cmpStratOut,
          wBody, wEnd, wPos, wpc, wEv, wClosed, wcpc, wcMsg, wContent, wAsm,
          wPending, wxpc,
          xText, xParsed, xCalls, xMessages, xLog, xTurn, xpc,
          epc, egpc, eProcess, eSh, eChildren, eOut, eTimer, eOutput,
          eErrChan, eResult,
          tListing, tOffered, tCalls, tResults,
          gTool, gpc, ggpc, gProc, gOut, gTimer, gOutput, gErrChan, gResult,
          sessionMessages, agentsMD>>

tuiVars == <<messages, pendingToolCalls, waitingForApproval, loading, err,
             textarea, cmds, executed, awaiting, accepted>>

asmVars == <<asmSt, asmSeen, asmOut, asmDone>>

cmpVars == <<cmpIn, cmpMax, cmpOut, cmpDone, cmpAgain, cmpAgainDone,
             cmpStrategy, cmpStratOut>>

wireVars == <<wBody, wEnd, wPos, wpc, wEv, wClosed, wcpc, wcMsg, wContent,
              wAsm, wPending, wxpc>>

xmlVars == <<xText, xParsed, xCalls, xMessages, xLog, xTurn, xpc>>

execVars == <<epc, egpc, eProcess, eSh, eChildren, eOut, eTimer, eOutput,
              eErrChan, eResult>>

toolVars == <<tListing, tOffered, tCalls, tResults>>

gitVars == <<gTool, gpc, ggpc, gProc, gOut, gTimer, gOutput, gErrChan,
             gResult>>

startVars == <<sessionMessages, agentsMD>>

----------------------------------------------------------------------------
(* Bounds *)

MaxCmds == 4         \* commands started in one run
MaxAsmChunks == 3    \* chunks fed to the assembler run on its own
MaxInputLen == 1     \* characters typed into the textarea
MaxSends == 2        \* messages the user sends in one run
MaxHistLen == 6      \* messages after the preamble in a history handed to Compact
MaxMaxMessages == 8  \* largest config.MaxMessages of a run of Compact
MaxBodyLen == 4      \* lines of a response body
MaxPieces == 2       \* pieces of text in the body of a function tag
MaxElements == 2     \* function tags in a finalized text
MaxXmlTurns == 2     \* turns that end in the fallback parser
MaxChildren == 2     \* processes sh has running at once
MaxOut == 2          \* bytes a command writes
MaxOutputSize == 1   \* config.Tools.MaxOutputSize
MaxToolCalls == 2    \* calls the model answers with

----------------------------------------------------------------------------
(* Values *)

NoID == 0

EmptyObject == <<"{", "}">>

Max(a, b) == IF a > b THEN a ELSE b

RECURSIVE SeqSum(_)
SeqSum(s) == IF s = <<>> THEN 0 ELSE Head(s) + SeqSum(Tail(s))

\* all the orders in which the elements of a finite set can be enumerated
RECURSIVE Orders(_)
Orders(S) ==
    IF S = {} THEN {<<>>}
    ELSE UNION { { <<x>> \o o : o \in Orders(S \ {x}) } : x \in S }

ToolCall(id, name, arguments) ==
    [id |-> id, name |-> name, arguments |-> arguments]

Fragment(id, name, arguments) ==
    [id |-> id, name |-> name, arguments |-> arguments]

----------------------------------------------------------------------------
(* The tool-call assembler: processStreamNew, stream_simple.go:162-228 *)

EmptyAsm == [byIndex |-> <<>>, args |-> <<>>]

\* idx := choice.Index*100 + i
SlotOf(choiceIndex, i) == choiceIndex * 100 + i

\* WriteArgs with the builder replaced instead of written to
WriteArgsOverwrite(args, idx, text) ==
    [s \in DOMAIN args \cup {idx} |-> IF s = idx THEN text ELSE args[s]]

\* toolCallArgs[idx].WriteString(text), creating the builder when it is nil
WriteArgs(args, idx, text) ==
    [s \in DOMAIN args \cup {idx} |->
        IF s = idx
        THEN (IF idx \in DOMAIN args THEN args[idx] ELSE <<>>) \o text
        ELSE args[s]]

\* toolCallsByIndex[idx] = tc
PutCall(byIndex, idx, tc) ==
    [s \in DOMAIN byIndex \cup {idx} |-> IF s = idx THEN tc ELSE byIndex[s]]

\* the slots the range over toolCallsByIndex can stop at: the declared calls
\* with the fragment's function name (Go enumerates a map in no fixed order)
NameMatches(st, d) ==
    { t \in DOMAIN st.byIndex : st.byIndex[t].name = d.name }

\* the assembler states one fragment can lead to
FragOutcomes(st, idx, d) ==
    IF d.id # NoID
    THEN { [byIndex |-> PutCall(st.byIndex, idx,
                                ToolCall(d.id, d.name, d.arguments)),
            args |-> IF d.arguments # <<>>
                     THEN WriteArgs(st.args, idx, d.arguments)
                     ELSE st.args] }
    ELSE IF d.arguments # <<>>
    THEN IF idx \in DOMAIN st.byIndex
         THEN { [st EXCEPT !.args = WriteArgs(st.args, idx, d.arguments)] }
         ELSE IF NameMatches(st, d) = {}
              THEN { st }
              ELSE { [st EXCEPT !.args = WriteArgs(st.args, t, d.arguments)]
                     : t \in NameMatches(st, d) }
    ELSE { st }

\* for i, deltaToolCall := range choice.Delta.ToolCalls (fragments from i on)
RECURSIVE ChunkOutcomes(_, _, _, _)
ChunkOutcomes(st, choiceIndex, frags, i) ==
    IF i > Len(frags) THEN { st }
    ELSE UNION { ChunkOutcomes(s2, choiceIndex, frags, i + 1)
                 : s2 \in FragOutcomes(st, SlotOf(choiceIndex, i - 1), frags[i]) }

\* FinalArguments without the default for an empty argument string
FinalArgumentsNoDefault(st, idx) ==
    IF idx \in DOMAIN st.args /\ st.args[idx] # <<>>
    THEN st.args[idx]
    ELSE st.byIndex[idx].arguments

\* the argument string a declared call is finalized with
FinalArguments(st, idx) ==
    LET acc == IF idx \in DOMAIN st.args /\ st.args[idx] # <<>>
               THEN st.args[idx]
               ELSE st.byIndex[idx].arguments
    IN IF acc = <<>> THEN EmptyObject ELSE acc

\* for idx, tc := range toolCallsByIndex { ...; toolCalls = append(toolCalls, *tc) }
\* with the map enumerated in the order `order`
Finalize(st, order) ==
    [k \in 1..Len(order) |->
        ToolCall(st.byIndex[order[k]].id, st.byIndex[order[k]].name,
                 FinalArguments(st, order[k]))]

\* the orders the range over toolCallsByIndex can take
MapOrders(st) == Orders(DOMAIN st.byIndex)

IsFinish(reason) == reason \in {"stop", "tool_calls"}

----------------------------------------------------------------------------
(* The assembler run on its own over bounded chunk sequences *)

Chunk(index, toolCalls, finish) ==
    [index |-> index, content |-> <<>>, toolCalls |-> toolCalls,
     finish |-> finish, error |-> FALSE]

D1 == Fragment(1, "f", <<>>)
D1x == Fragment(1, "f", <<"x">>)
D2 == Fragment(2, "g", <<"x">>)
D2f == Fragment(2, "f", <<>>)
Ay == Fragment(NoID, "", <<"y">>)
Afy == Fragment(NoID, "f", <<"y">>)
Enone == Fragment(NoID, "", <<>>)

\* the chunks that carry tool-call fragments and no terminal reason
AsmDeltaChunks ==
    { Chunk(0, <<d>>, "") : d \in {D1, D1x, D2, D2f, Ay, Afy, Enone} }
    \cup { Chunk(0, <<D1, D2>>, ""), Chunk(0, <<D1x, Ay>>, ""),
           Chunk(0, <<Ay, D2>>, ""), Chunk(0, <<>>, "length") }
    \cup { Chunk(1, <<D2>>, ""), Chunk(1, <<Ay>>, "") }
    \cup { Chunk(0, <<D1, D2f>>, ""), Chunk(1, <<Afy>>, "") }

\* the chunks that carry a terminal reason
AsmFinishChunks ==
    { Chunk(0, <<>>, "stop"), Chunk(0, <<>>, "tool_calls"),
      Chunk(0, <<D1>>, "tool_calls") }

AsmChunkCount == IF asmSeen = <<>> THEN 0 ELSE asmSeen[Len(asmSeen)].chunk

\* the fragments of a chunk with the slot each one is addressed to
SeenOf(ch, n) ==
    [i \in 1..Len(ch.toolCalls) |->
        [chunk |-> n, slot |-> SlotOf(ch.index, i - 1), frag |-> ch.toolCalls[i]]]

AsmInit ==
    /\ asmSt = EmptyAsm
    /\ asmSeen = <<>>
    /\ asmOut = <<>>
    /\ asmDone = "open"

\* one iteration of the range over the stream with a chunk that does not
\* end the turn (stream_simple.go:162-209)
AsmDelta(ch) ==
    /\ asmDone = "open"
    /\ AsmChunkCount < MaxAsmChunks
    /\ asmSt' \in ChunkOutcomes(asmSt, ch.index, ch.toolCalls, 1)
    /\ asmSeen' = asmSeen \o SeenOf(ch, AsmChunkCount + 1)
    /\ UNCHANGED <<asmOut, asmDone, tuiVars, cmpVars, wireVars, xmlVars, execVars, toolVars,
                   gitVars, startVars>>

\* the iteration that sees finish_reason stop or tool_calls
\* (stream_simple.go:162-228)
AsmFinish(ch) ==
    /\ asmDone = "open"
    /\ \E st \in ChunkOutcomes(asmSt, ch.index, ch.toolCalls, 1) :
         /\ asmSt' = st
         /\ \E order \in MapOrders(st) : asmOut' = Finalize(st, order)
    /\ asmSeen' = asmSeen \o SeenOf(ch, AsmChunkCount + 1)
    /\ asmDone' = "finished"
    /\ UNCHANGED <<tuiVars, cmpVars, wireVars, xmlVars, execVars, toolVars,
                   gitVars, startVars>>

\* the stream is closed without a terminal reason (stream_simple.go:293-294)
AsmClose ==
    /\ asmDone = "open"
    /\ asmDone' = "closed"
    /\ UNCHANGED <<asmSt, asmSeen, asmOut, tuiVars, cmpVars, wireVars, xmlVars, execVars, toolVars,
                   gitVars, startVars>>

----------------------------------------------------------------------------
(* Messages, configuration, tools *)

Message(role, content, toolCalls, toolCallID) ==
    [role |-> role, content |-> content, toolCalls |-> toolCalls,
     toolCallID |-> toolCallID]

NewSystemMessage(content) == Message("system", content, <<>>, NoID)

NewUserMessage(content) == Message("user", content, <<>>, NoID)

\* NewToolMessage without the correlation id
NewToolMessageNoID(toolCallID, content) == Message("tool", content, <<>>, NoID)

NewToolMessage(toolCallID, content) == Message("tool", content, <<>>, toolCallID)

\* the system prompt of NewSimpleModel, abbreviated to one character
SystemPrompt == <<"S">>

\* tools.auto_approve_tools, the default of the configuration
AutoApprove ==
    <<"read_file", "list_directory", "list_tools", "git_ls_files", "git_grep">>

\* the names GetAllTools registers, which NewExecutor indexes
ToolNames ==
    {"read_file", "write_file", "execute_command", "list_directory",
     "list_tools", "git_grep", "git_ls_files"}

\* context.* of the configuration; the token budget is scaled to the model
ContextAutoCompact == TRUE
ContextMaxTokens == 60
ContextMaxMessages == 4
CompactionRatioNum == 1
CompactionRatioDen == 2

isAutoApproved(toolName) ==
    \E k \in 1..Len(AutoApprove) : AutoApprove[k] = toolName

\* json.Unmarshal([]byte(arguments), &args) succeeds: the argument texts of
\* the model that are a JSON object
JSONValid(arguments) ==
    arguments \in { <<"{", "}">>, <<"{", "k", "}">> }

OkText == <<"o", "k">>
ToolErrorText == <<"E", "x">>
ParseErrorText == <<"E", "p">>
UnknownToolText == <<"E", "u">>

\* what a tool callback can return
ToolOutcomes == {"ok", "fail"}

ToolResult(toolCallID, output, error) ==
    [toolCallID |-> toolCallID, output |-> output, error |-> error]

\* Executor.Execute; outcome is what the tool callback does
Execute(toolCall, outcome) ==
    IF ~JSONValid(toolCall.arguments)
    THEN ToolResult(toolCall.id, ParseErrorText, TRUE)
    ELSE IF toolCall.name \in ToolNames
    THEN (IF outcome = "ok"
          THEN ToolResult(toolCall.id, OkText, FALSE)
          ELSE ToolResult(toolCall.id, ToolErrorText, TRUE))
    ELSE ToolResult(toolCall.id, UnknownToolText, TRUE)

----------------------------------------------------------------------------
(* The tool registry: GetAllTools, GetBuiltinTools (part_006), NewExecutor *)
(* (part_013), ListTools and the two formats (list_tools.go)               *)

\* a ToolInfo: properties are the keys of Parameters.Properties, required is
\* Parameters.Required; the callback is the tool of that name
ToolInfo(name, description, properties, required) ==
    [name |-> name, description |-> description, properties |-> properties,
     required |-> required]

GetAllTools ==
    << ToolInfo("read_file", "Read the contents of a file",
                {"path"}, {"path"}),
       ToolInfo("write_file", "Write content to a file",
                {"path", "content"}, {"path", "content"}),
       ToolInfo("execute_command", "Execute a shell command",
                {"command", "working_dir"}, {"command"}),
       ToolInfo("list_directory", "List files in a directory",
                {"path"}, {"path"}),
       ToolInfo("list_tools",
                "List all available tools and their descriptions",
                {"format"}, {}),
       ToolInfo("git_grep", "Search for a pattern in git repository files",
                {"pattern", "path", "case_insensitive", "line_number",
                 "count"}, {"pattern"}),
       ToolInfo("git_ls_files", "List files in git repository",
                {"cached", "deleted", "modified", "others", "ignored",
                 "stage", "unmerged", "killed", "exclude_standard",
                 "full_name", "path"}, {}) >>

\* GetBuiltinTools: one api.Tool for every ToolInfo, in order
GetBuiltinTools ==
    [i \in 1..Len(GetAllTools) |->
        [type |-> "function",
         function |-> [name |-> GetAllTools[i].name,
                       description |-> GetAllTools[i].description,
                       parameters |->
                           [properties |-> GetAllTools[i].properties,
                            required |-> GetAllTools[i].required]]]]

\* an index that leaves out the last tool of the registry
NewExecutorSkipsLast ==
    [name \in { GetAllTools[i].name : i \in 1..(Len(GetAllTools) - 1) } |->
        GetAllTools[CHOOSE i \in 1..(Len(GetAllTools) - 1) :
                        GetAllTools[i].name = name]]

\* NewExecutor: toolInfoByName, the last ToolInfo of a name winning
NewExecutor ==
    [name \in { GetAllTools[i].name : i \in 1..Len(GetAllTools) } |->
        LET last == CHOOSE i \in 1..Len(GetAllTools) :
                        /\ GetAllTools[i].name = name
                        /\ \A j \in 1..Len(GetAllTools) :
                               GetAllTools[j].name = name => j <= i
        IN GetAllTools[last]]

\* Executor.Execute (part_013:31-61) on the map of NewExecutor; outcome is
\* what the callback does
ExecutorExecute(toolCall, outcome) ==
    IF toolCall.name \in DOMAIN NewExecutor
    THEN (IF outcome = "ok"
          THEN ToolResult(toolCall.id, OkText, FALSE)
          ELSE ToolResult(toolCall.id, ToolErrorText, TRUE))
    ELSE ToolResult(toolCall.id, UnknownToolText, TRUE)

\* a line of the text listing
ListingLine(kind, n, text, parameters) ==
    [kind |-> kind, n |-> n, text |-> text, parameters |-> parameters]

\* the lines FormatAsText writes for the i-th tool (list_tools.go:61-81);
\* the parameter lines come in the order of a map iteration and are kept
\* as a set of [name, required]
ToolLines(tools, i) ==
    << ListingLine("name", i, tools[i].name, {}),
       ListingLine("description", 0, tools[i].description, {}),
       IF tools[i].properties # {}
       THEN ListingLine("parameters", 0, "",
                     { [name |-> prop, required |-> prop \in tools[i].required] :
                       prop \in tools[i].properties })
       ELSE ListingLine("parameters", 0, "None", {}),
       ListingLine("blank", 0, "", {}) >>

RECURSIVE ToolLinesFrom(_, _)
ToolLinesFrom(tools, i) ==
    IF i > Len(tools) THEN <<>>
    ELSE ToolLines(tools, i) \o ToolLinesFrom(tools, i + 1)

\* FormatAsText (list_tools.go:54-84)
FormatAsText(tools) ==
    << ListingLine("title", 0, "Available Tools:", {}),
       ListingLine("rule", 0, "================", {}),
       ListingLine("blank", 0, "", {}) >> \o ToolLinesFrom(tools, 1)

\* FormatAsJSON (list_tools.go:86-93): the array of the exported fields of
\* each ToolInfo; the callback is not exported and is left out
FormatAsJSON(tools) ==
    [i \in 1..Len(tools) |->
        [name |-> tools[i].name, description |-> tools[i].description,
         parameters |-> [properties |-> tools[i].properties,
                         required |-> tools[i].required]]]

\* args.Format of a call of list_tools
Formats == {"", "text", "json", "yaml"}

\* ListTools (list_tools.go:16-51): "json" selects FormatAsJSON, anything
\* else FormatAsText
ListTools(format) ==
    IF format = "json"
    THEN [format |-> "json", text |-> <<>>, json |-> FormatAsJSON(GetAllTools)]
    ELSE [format |-> "text", text |-> FormatAsText(GetAllTools), json |-> <<>>]

\* list_tools was not called
NoListing == [format |-> "none", text |-> <<>>, json |-> <<>>]

----------------------------------------------------------------------------
(* Context manager: manager.go *)

\* len(json.Marshal(toolCall)):
\* {"id":"","type":"","function":{"name":"","arguments":""}} is 57 bytes,
\* the id is one character, the type is "function"
ToolCallJSONChars(tc) == 57 + 1 + 8 + Len(tc.name) + Len(tc.arguments)

\* len(json.Marshal(msg.ToolCalls)): brackets, elements, commas
ToolCallsJSONChars(calls) ==
    2 + SeqSum([k \in 1..Len(calls) |-> ToolCallJSONChars(calls[k])])
      + (Len(calls) - 1)

MessageChars(msg) ==
    Len(msg.content)
    + (IF Len(msg.toolCalls) > 0 THEN ToolCallsJSONChars(msg.toolCalls) ELSE 0)

GetTokenUsage(msgs) ==
    SeqSum([k \in 1..Len(msgs) |-> MessageChars(msgs[k])]) \div 4

\* int(float32(MaxTokens) * CompactionRatio)
CompactionThreshold == (ContextMaxTokens * CompactionRatioNum) \div CompactionRatioDen

Digits == <<"0", "1", "2", "3", "4", "5", "6", "7", "8", "9">>

RECURSIVE intToString(_)
intToString(n) ==
    IF n = 0 THEN <<"0">>
    ELSE IF n < 10 THEN <<Digits[n + 1]>>
    ELSE intToString(n \div 10) \o <<Digits[(n % 10) + 1]>>

CountRole(ms, role) == Cardinality({k \in 1..Len(ms) : ms[k].role = role})

\* the "- User: ..." lines of the first three user messages (no message of
\* the model is longer than 100 characters), each line marked by "U" and
\* ended by "/"
RECURSIVE UserLines(_, _)
UserLines(ms, seen) ==
    IF ms = <<>> THEN <<>>
    ELSE IF Head(ms).role = "user"
    THEN (IF seen + 1 <= 3 THEN <<"U">> \o Head(ms).content \o <<"/">> ELSE <<>>)
         \o UserLines(Tail(ms), seen + 1)
    ELSE UserLines(Tail(ms), seen)

\* summarizeMessages; the fixed headings are abbreviated to "P" and "#"
summarizeMessages(ms) ==
    NewSystemMessage(
        <<"P">> \o UserLines(ms, 0) \o <<"#">>
        \o intToString(CountRole(ms, "user")) \o <<",">>
        \o intToString(CountRole(ms, "assistant")) \o <<",">>
        \o intToString(SeqSum([k \in 1..Len(ms) |->
               IF ms[k].role = "assistant" THEN Len(ms[k].toolCalls) ELSE 0])))

\* the messages from index `from` on, tool messages included
KeepAllFrom(msgs, from) == SubSeq(msgs, from, Len(msgs))

\* the messages from index `from` on (1-based) that are not tool messages
RECURSIVE KeepNonTool(_, _)
KeepNonTool(msgs, from) ==
    IF from > Len(msgs) THEN <<>>
    ELSE (IF msgs[from].role # "tool" THEN <<msgs[from]>> ELSE <<>>)
         \o KeepNonTool(msgs, from + 1)

\* CompactWith keeping the recent half whatever config.MaxMessages is
CompactWithHalf(msgs, maxMessages) ==
    IF Len(msgs) <= 3 THEN msgs
    ELSE LET half == Len(msgs) \div 2
             old == SubSeq(msgs, 2, half)
             recentStart == half
         IN <<msgs[1]>>
            \o (IF Len(old) = 0 THEN <<>> ELSE <<summarizeMessages(old)>>)
            \o KeepNonTool(msgs, recentStart + 1)

\* Manager.Compact with m.config.MaxMessages = maxMessages (indices of the
\* code are 0-based)
CompactWith(msgs, maxMessages) ==
    IF Len(msgs) <= 3 THEN msgs
    ELSE LET half == Len(msgs) \div 2
             old == SubSeq(msgs, 2, half)
             recentStart == Max(half, Len(msgs) - maxMessages \div 2)
         IN <<msgs[1]>>
            \o (IF Len(old) = 0 THEN <<>> ELSE <<summarizeMessages(old)>>)
            \o KeepNonTool(msgs, recentStart + 1)

\* Compact without messages[0] in front of the compacted history
CompactDropsFirst(msgs) ==
    IF Len(msgs) <= 3 THEN msgs
    ELSE Tail(CompactWith(msgs, ContextMaxMessages))

\* Manager.Compact under the configuration of the session
Compact(msgs) == CompactWith(msgs, ContextMaxMessages)

\* the strategy "aggressive" keeps messages[0] and the last
\* AggressiveKeep messages of a history longer than AggressiveKeep + 1
AggressiveKeep == 4

\* the strategy "smart" keeps the last SmartRecent messages
SmartRecent == 10

\* strings.Contains(strings.ToLower(msg.Content), "error") or "important";
\* the content e stands for such a text
Important(msg) == msg.content = <<"e">>

\* the loop of the strategy "smart" from the 0-based index i on
RECURSIVE SmartFrom(_, _)
SmartFrom(msgs, i) ==
    IF i >= Len(msgs) THEN <<>>
    ELSE IF Len(msgs[i + 1].toolCalls) > 0
    THEN IF i + 1 < Len(msgs) /\ msgs[i + 2].role = "tool"
         THEN <<msgs[i + 1], msgs[i + 2]>> \o SmartFrom(msgs, i + 2)
         ELSE <<msgs[i + 1]>> \o SmartFrom(msgs, i + 1)
    ELSE IF Important(msgs[i + 1]) \/ i >= Len(msgs) - SmartRecent
    THEN <<msgs[i + 1]>> \o SmartFrom(msgs, i + 1)
    ELSE SmartFrom(msgs, i + 1)

Strategies == {"aggressive", "smart", "default"}

\* Manager.CompactWithStrategy with m.config.MaxMessages = maxMessages
CompactWithStrategy(msgs, maxMessages, strategy) ==
    CASE strategy = "aggressive" ->
           IF Len(msgs) <= AggressiveKeep + 1 THEN msgs
           ELSE <<msgs[1]>>
                \o SubSeq(msgs, Len(msgs) - AggressiveKeep + 1, Len(msgs))
      [] strategy = "smart" -> <<msgs[1]>> \o SmartFrom(msgs, 1)
      [] OTHER -> CompactWith(msgs, maxMessages)

\* the compaction step of processMessage (stream_simple.go:68-84)
AutoCompacted(msgs) ==
    IF ContextAutoCompact /\ GetTokenUsage(msgs) > CompactionThreshold
    THEN Compact(msgs)
    ELSE msgs

----------------------------------------------------------------------------
(* The completion service: the event sequences a request can be answered with *)

DataChunk(content, toolCalls, finish) ==
    [index |-> 0, content |-> content, toolCalls |-> toolCalls,
     finish |-> finish, error |-> FALSE]

\* a data frame without choices (a usage frame)
NoChoices == DataChunk(<<>>, <<>>, "")

\* StreamEvent{Data: &chunk}; kind "usage" is a chunk with len(Choices) = 0
DataEvent(kind, chunk) == [kind |-> kind, chunk |-> chunk]

\* StreamEvent{Error: err}
WireError == [kind |-> "error", chunk |-> NoChoices]

\* no event in the decoder's hand
NoEvent == [kind |-> "none", chunk |-> NoChoices]

ErrorEvent ==
    [index |-> 0, content |-> <<>>, toolCalls |-> <<>>, finish |-> "",
     error |-> TRUE]

\* text, then the terminal reason stop
PlainResponse == << DataChunk(<<"t">>, <<>>, "stop") >>

\* one allow-listed call whose arguments arrive in two fragments
ReadResponse ==
    << DataChunk(<<>>, <<Fragment(1, "read_file", <<"{">>)>>, ""),
       DataChunk(<<>>, <<Fragment(NoID, "", <<"k", "}">>)>>, "tool_calls") >>

\* one call outside the allow-list, declared without arguments
CommandResponse ==
    << DataChunk(<<>>, <<Fragment(1, "execute_command", <<>>)>>, "tool_calls") >>

\* two calls declared in one chunk: an allow-listed one and one outside the
\* allow-list whose arguments are not JSON
MixedResponse ==
    << DataChunk(<<"t">>, <<Fragment(1, "read_file", <<>>),
                           Fragment(2, "execute_command", <<"{">>)>>,
                 "tool_calls") >>

\* text, then an error event (a frame that does not decode, a failed read),
\* then a frame the consumer does not get to
ErrorResponse ==
    << DataChunk(<<"t">>, <<>>, ""), ErrorEvent, DataChunk(<<"t">>, <<>>, "stop") >>

\* the stream is closed without a terminal reason
ClosedResponse == << DataChunk(<<"t">>, <<>>, "") >>

\* no text and no fragment, then the terminal reason stop
EmptyResponse == << DataChunk(<<>>, <<>>, "stop") >>

\* one allow-listed call declared in the chunk whose terminal reason is stop
StopWithCallResponse ==
    << DataChunk(<<>>, <<Fragment(1, "list_tools", <<>>)>>, "stop") >>

\* a call is declared and the stream is closed without a terminal reason
CutResponse ==
    << DataChunk(<<"t">>, <<Fragment(1, "read_file", <<"{", "}">>)>>, "") >>

\* a call is declared in the chunk whose finish_reason is length
LengthResponse ==
    << DataChunk(<<>>, <<Fragment(1, "execute_command", <<>>)>>, "length") >>

\* answers that end without finish_reason stop or tool_calls after a call
\* was declared
TruncatedResponses == {CutResponse, LengthResponse}

Responses ==
    {PlainResponse, ReadResponse, CommandResponse, MixedResponse,
     ErrorResponse, ClosedResponse, EmptyResponse, StopWithCallResponse}

\* the ids of a response are unique to the request c they answer
StampChunk(ch, c) ==
    [ch EXCEPT !.toolCalls =
        [k \in 1..Len(ch.toolCalls) |->
            IF ch.toolCalls[k].id = NoID THEN ch.toolCalls[k]
            ELSE [ch.toolCalls[k] EXCEPT !.id = c * 10 + ch.toolCalls[k].id]]]

Stamp(resp, c) == [k \in 1..Len(resp) |-> StampChunk(resp[k], c)]

----------------------------------------------------------------------------
(* Commands *)

NoResult == ToolResult(NoID, <<>>, FALSE)

NewCmd(kind, origin, parent) ==
    [kind |-> kind, pc |-> "start", origin |-> origin, parent |-> parent,
     stream |-> <<>>, fullContent |-> <<>>, asm |-> EmptyAsm, sent |-> <<>>,
     declared |-> <<>>, reason |-> "", calls |-> <<>>, i |-> 0,
     result |-> NoResult, appended |-> <<>>, msg |-> ""]

\* m.processMessage(): the command of SendMessage and continueConversation
processMessage(origin, parent) == NewCmd("stream", origin, parent)

\* m.executePendingTools()
executePendingTools(origin, parent) == NewCmd("exec", origin, parent)

CanStart == Len(cmds) < MaxCmds

UserSends == Cardinality({c \in 1..Len(cmds) : cmds[c].origin = "user"})

Returned(c, msg) ==
    /\ c \in 1..Len(cmds)
    /\ cmds[c].pc = "returned"
    /\ cmds[c].msg = msg

IdsOf(calls) == { calls[k].id : k \in 1..Len(calls) }

\* the last message is an assistant message
LastIsAssistant(msgs) == Len(msgs) > 0 /\ msgs[Len(msgs)].role = "assistant"

\* stream_simple.go:151-158
WithContent(msgs, content) ==
    IF LastIsAssistant(msgs)
    THEN [msgs EXCEPT ![Len(msgs)].content = content]
    ELSE Append(msgs, Message("assistant", content, <<>>, NoID))

\* stream_simple.go:266-276
WithComplete(msgs, content, toolCalls) ==
    IF LastIsAssistant(msgs)
    THEN [msgs EXCEPT ![Len(msgs)].content = content,
                      ![Len(msgs)].toolCalls = toolCalls]
    ELSE Append(msgs, Message("assistant", content, toolCalls, NoID))

\* needsApproval looking at the first pending call only
needsApprovalFirstOnly(calls) ==
    Len(calls) > 0 /\ ~isAutoApproved(calls[1].name)

\* checkToolApproval: needsApproval
needsApproval(calls) ==
    \E k \in 1..Len(calls) : ~isAutoApproved(calls[k].name)

----------------------------------------------------------------------------
(* State after NewSimpleModel *)

TuiInit ==
    /\ messages = <<NewSystemMessage(SystemPrompt)>>
    /\ pendingToolCalls = <<>>
    /\ waitingForApproval = FALSE
    /\ loading = FALSE
    /\ err = FALSE
    /\ textarea = <<>>
    /\ cmds = <<>>
    /\ executed = <<>>
    /\ awaiting = <<>>
    /\ accepted = {}

\* no run of Compact on its own
CmpInit ==
    /\ cmpIn = <<>>
    /\ cmpMax = 0
    /\ cmpOut = <<>>
    /\ cmpDone = FALSE
    /\ cmpAgain = <<>>
    /\ cmpAgainDone = FALSE
    /\ cmpStrategy = ""
    /\ cmpStratOut = <<>>

\* no request on the wire
WireInit ==
    /\ wBody = <<>>
    /\ wEnd = "eof"
    /\ wPos = 0
    /\ wpc = "idle"
    /\ wEv = NoEvent
    /\ wClosed = 0
    /\ wcpc = "idle"
    /\ wcMsg = ""
    /\ wContent = <<>>
    /\ wAsm = EmptyAsm
    /\ wPending = <<>>
    /\ wxpc = "none"

\* no turn in the fallback parser
XmlInit ==
    /\ xText = <<>>
    /\ xParsed = <<>>
    /\ xCalls = <<>>
    /\ xMessages = <<>>
    /\ xLog = <<>>
    /\ xTurn = 0
    /\ xpc = "idle"

\* the api.ToolResult of a call of ExecuteCommand: what result.Output holds and result.Error
ExecResult(kind, len, truncated, error) ==
    [kind |-> kind, len |-> len, truncated |-> truncated, error |-> error]

\* no result yet
NoExecResult == ExecResult("none", 0, FALSE, FALSE)

\* no call of ExecuteCommand
ExecInit ==
    /\ epc = "idle"
    /\ egpc = "none"
    /\ eProcess = FALSE
    /\ eSh = "none"
    /\ eChildren = 0
    /\ eOut = 0
    /\ eTimer = "none"
    /\ eOutput = <<>>
    /\ eErrChan = <<>>
    /\ eResult = NoExecResult

\* nothing listed, offered or called
ToolsInit ==
    /\ tListing = NoListing
    /\ tOffered = <<>>
    /\ tCalls = <<>>
    /\ tResults = <<>>

\* NewSimpleModel (simple_app.go:103-136): session.Messages holds the
\* system prompt and m.messages is a copy of that slice header, of length
\* and capacity 1; SimpleModel.Init has not run
StartInit ==
    /\ sessionMessages = <<NewSystemMessage(SystemPrompt)>>
    /\ agentsMD = "unread"

\* no call of GitGrep or GitLsFiles
GitInit ==
    /\ gTool = "none"
    /\ gpc = "idle"
    /\ ggpc = "none"
    /\ gProc = "none"
    /\ gOut = 0
    /\ gTimer = "none"
    /\ gOutput = <<>>
    /\ gErrChan = <<>>
    /\ gResult = NoExecResult

Init ==
    /\ TuiInit /\ AsmInit /\ CmpInit /\ WireInit /\ XmlInit /\ ExecInit
    /\ ToolsInit /\ GitInit /\ StartInit

----------------------------------------------------------------------------
(* SimpleModel.Update: key events (simple_app.go:194-251, 336-342) *)

\* a rune that is not an approval decision: it reaches the textarea unless
\* m.loading
KeyRunes ==
    /\ ~loading
    /\ Len(textarea) < MaxInputLen
    /\ textarea' = Append(textarea, "h")
    /\ UNCHANGED <<messages, pendingToolCalls, waitingForApproval, loading,
                   err, cmds, executed, awaiting, accepted, asmVars, cmpVars, wireVars, xmlVars, execVars, toolVars,
                   gitVars, startVars>>

\* y or Y while m.waitingForApproval: approvePendingTools, executePendingTools
KeyAccept ==
    /\ waitingForApproval
    /\ CanStart
    /\ waitingForApproval' = FALSE
    /\ loading' = TRUE
    /\ cmds' = Append(cmds, executePendingTools("accept", 0))
    /\ accepted' = accepted \cup IdsOf(awaiting)
    /\ awaiting' = <<>>
    /\ UNCHANGED <<messages, pendingToolCalls, err, textarea, executed, asmVars, cmpVars, wireVars, xmlVars, execVars, toolVars,
                   gitVars, startVars>>

\* KeyReject without m.pendingToolCalls = nil
KeyRejectKeepsPending ==
    /\ waitingForApproval
    /\ waitingForApproval' = FALSE
    /\ awaiting' = <<>>
    /\ UNCHANGED <<messages, pendingToolCalls, loading, err, textarea, cmds,
                   executed, accepted, asmVars, cmpVars, wireVars, xmlVars, execVars, toolVars,
                   gitVars, startVars>>

\* n or N while m.waitingForApproval: cancelPendingTools
KeyReject ==
    /\ waitingForApproval
    /\ waitingForApproval' = FALSE
    /\ pendingToolCalls' = <<>>
    /\ awaiting' = <<>>
    /\ UNCHANGED <<messages, loading, err, textarea, cmds, executed,
                   accepted, asmVars, cmpVars, wireVars, xmlVars, execVars, toolVars,
                   gitVars, startVars>>

\* Enter with a non-blank textarea that is not a slash command: SendMessage
KeyEnter ==
    /\ textarea # <<>>
    /\ CanStart
    /\ UserSends < MaxSends
    /\ messages' = Append(messages, NewUserMessage(textarea))
    /\ textarea' = <<>>
    /\ loading' = TRUE
    /\ cmds' = Append(cmds, processMessage("user", 0))
    /\ UNCHANGED <<pendingToolCalls, waitingForApproval, err, executed,
                   awaiting, accepted, asmVars, cmpVars, wireVars, xmlVars, execVars, toolVars,
                   gitVars, startVars>>

\* Ctrl+C while m.loading.  When nothing is loading Update returns tea.Quit,
\* which ends the program: the run ends there and no state follows it.
KeyCtrlC ==
    /\ loading
    /\ loading' = FALSE
    /\ UNCHANGED <<messages, pendingToolCalls, waitingForApproval, err,
                   textarea, cmds, executed, awaiting, accepted, asmVars, cmpVars, wireVars, xmlVars, execVars, toolVars,
                   gitVars, startVars>>

----------------------------------------------------------------------------
(* SimpleModel.Update: messages returned by commands (simple_app.go:253-326) *)

\* UpdateStreamOutputPlain without m.loading = false
UpdateStreamOutputPlainKeepsLoading(c) ==
    /\ Returned(c, "StreamOutput")
    /\ Len(pendingToolCalls) = 0
    /\ cmds' = [cmds EXCEPT ![c].pc = "handled"]
    /\ UNCHANGED <<messages, pendingToolCalls, waitingForApproval, loading,
                   err, textarea, executed, awaiting, accepted, asmVars,
                   cmpVars, wireVars, xmlVars, execVars, toolVars, gitVars, startVars>>

\* case StreamOutput, no pending call
UpdateStreamOutputPlain(c) ==
    /\ Returned(c, "StreamOutput")
    /\ Len(pendingToolCalls) = 0
    /\ loading' = FALSE
    /\ cmds' = [cmds EXCEPT ![c].pc = "handled"]
    /\ UNCHANGED <<messages, pendingToolCalls, waitingForApproval, err,
                   textarea, executed, awaiting, accepted, asmVars, cmpVars, wireVars, xmlVars, execVars, toolVars,
                   gitVars, startVars>>

\* case StreamOutput, pending calls that checkToolApproval blocks on
UpdateStreamOutputBlock(c) ==
    /\ Returned(c, "StreamOutput")
    /\ Len(pendingToolCalls) > 0
    /\ needsApproval(pendingToolCalls)
    /\ waitingForApproval' = TRUE
    /\ loading' = FALSE
    /\ awaiting' = pendingToolCalls
    /\ cmds' = [cmds EXCEPT ![c].pc = "handled"]
    /\ UNCHANGED <<messages, pendingToolCalls, err, textarea, executed,
                   accepted, asmVars, cmpVars, wireVars, xmlVars, execVars, toolVars,
                   gitVars, startVars>>

\* case StreamOutput, pending calls that are all auto-approved
UpdateStreamOutputAuto(c) ==
    /\ Returned(c, "StreamOutput")
    /\ Len(pendingToolCalls) > 0
    /\ ~needsApproval(pendingToolCalls)
    /\ CanStart
    /\ waitingForApproval' = FALSE
    /\ loading' = TRUE
    /\ cmds' = Append([cmds EXCEPT ![c].pc = "handled"],
                      executePendingTools("auto", c))
    /\ UNCHANGED <<messages, pendingToolCalls, err, textarea, executed,
                   awaiting, accepted, asmVars, cmpVars, wireVars, xmlVars, execVars, toolVars,
                   gitVars, startVars>>

\* case toolExecutionMsg: hasMore is always true, continueConversation
UpdateToolExecution(c) ==
    /\ Returned(c, "toolExecutionMsg")
    /\ CanStart
    /\ cmds' = Append([cmds EXCEPT ![c].pc = "handled"],
                      processMessage("continuation", c))
    /\ UNCHANGED <<messages, pendingToolCalls, waitingForApproval, loading,
                   err, textarea, executed, awaiting, accepted, asmVars, cmpVars, wireVars, xmlVars, execVars, toolVars,
                   gitVars, startVars>>

\* UpdateError without m.loading = false
UpdateErrorKeepsLoading(c) ==
    /\ Returned(c, "errorMsg")
    /\ err' = TRUE
    /\ cmds' = [cmds EXCEPT ![c].pc = "handled"]
    /\ UNCHANGED <<messages, pendingToolCalls, waitingForApproval, loading,
                   textarea, executed, awaiting, accepted, asmVars, cmpVars, wireVars, xmlVars, execVars, toolVars,
                   gitVars, startVars>>

\* case errorMsg
UpdateError(c) ==
    /\ Returned(c, "errorMsg")
    /\ err' = TRUE
    /\ loading' = FALSE
    /\ cmds' = [cmds EXCEPT ![c].pc = "handled"]
    /\ UNCHANGED <<messages, pendingToolCalls, waitingForApproval, textarea,
                   executed, awaiting, accepted, asmVars, cmpVars, wireVars, xmlVars, execVars, toolVars,
                   gitVars, startVars>>

----------------------------------------------------------------------------
(* The command of processMessage (stream_simple.go:65-295) *)

Running(c, kind, pc) ==
    /\ c \in 1..Len(cmds)
    /\ cmds[c].kind = kind
    /\ cmds[c].pc = pc

\* auto-compaction, then StreamChatCompletionWithTools answers with a stream
Dispatch(c) ==
    /\ Running(c, "stream", "start")
    /\ messages' = AutoCompacted(messages)
    /\ \E resp \in Responses :
         cmds' = [cmds EXCEPT ![c].pc = "streaming",
                              ![c].sent = messages',
                              ![c].stream = Stamp(resp, c)]
    /\ UNCHANGED <<pendingToolCalls, waitingForApproval, loading, err,
                   textarea, executed, awaiting, accepted, asmVars, cmpVars, wireVars, xmlVars, execVars, toolVars,
                   gitVars, startVars>>

\* auto-compaction, then StreamChatCompletionWithTools answers with a
\* stream that declares a call and ends without stop or tool_calls
DispatchTruncated(c) ==
    /\ Running(c, "stream", "start")
    /\ messages' = AutoCompacted(messages)
    /\ \E resp \in TruncatedResponses :
         cmds' = [cmds EXCEPT ![c].pc = "streaming",
                              ![c].sent = messages',
                              ![c].stream = Stamp(resp, c)]
    /\ UNCHANGED <<pendingToolCalls, waitingForApproval, loading, err,
                   textarea, executed, awaiting, accepted, asmVars, cmpVars,
                   wireVars, xmlVars, execVars, toolVars, gitVars, startVars>>

\* auto-compaction, then StreamChatCompletionWithTools returns an error
DispatchFails(c) ==
    /\ Running(c, "stream", "start")
    /\ messages' = AutoCompacted(messages)
    /\ cmds' = [cmds EXCEPT ![c].pc = "returned", ![c].msg = "errorMsg"]
    /\ UNCHANGED <<pendingToolCalls, waitingForApproval, loading, err,
                   textarea, executed, awaiting, accepted, asmVars, cmpVars, wireVars, xmlVars, execVars, toolVars,
                   gitVars, startVars>>

\* event.Error != nil
StreamError(c) ==
    /\ Running(c, "stream", "streaming")
    /\ cmds[c].stream # <<>>
    /\ Head(cmds[c].stream).error
    /\ cmds' = [cmds EXCEPT ![c].pc = "returned", ![c].msg = "errorMsg",
                            ![c].stream = Tail(@)]
    /\ UNCHANGED <<messages, pendingToolCalls, waitingForApproval, loading,
                   err, textarea, executed, awaiting, accepted, asmVars, cmpVars, wireVars, xmlVars, execVars, toolVars,
                   gitVars, startVars>>

\* the ids declared so far, in the order of their first id-bearing fragment
RECURSIVE WithDeclared(_, _)
WithDeclared(declared, frags) ==
    IF frags = <<>> THEN declared
    ELSE WithDeclared(
           IF Head(frags).id # NoID
              /\ \A k \in 1..Len(declared) : declared[k] # Head(frags).id
           THEN Append(declared, Head(frags).id)
           ELSE declared,
           Tail(frags))

\* the content of a chunk (stream_simple.go:144-159)
ContentOf(c, ch) == cmds[c].fullContent \o ch.content

AfterContent(c, ch) ==
    IF ch.content # <<>> THEN WithContent(messages, ContentOf(c, ch))
    ELSE messages

\* one iteration with a chunk that carries no terminal reason
StreamDelta(c) ==
    /\ Running(c, "stream", "streaming")
    /\ cmds[c].stream # <<>>
    /\ LET ch == Head(cmds[c].stream) IN
         /\ ~ch.error
         /\ ~IsFinish(ch.finish)
         /\ messages' = AfterContent(c, ch)
         /\ \E st \in ChunkOutcomes(cmds[c].asm, ch.index, ch.toolCalls, 1) :
              cmds' = [cmds EXCEPT ![c].fullContent = ContentOf(c, ch),
                                   ![c].asm = st,
                                   ![c].declared = WithDeclared(@, ch.toolCalls),
                                   ![c].stream = Tail(@)]
    /\ UNCHANGED <<pendingToolCalls, waitingForApproval, loading, err,
                   textarea, executed, awaiting, accepted, asmVars, cmpVars, wireVars, xmlVars, execVars, toolVars,
                   gitVars, startVars>>

\* the iteration that sees finish_reason stop or tool_calls
StreamFinish(c) ==
    /\ Running(c, "stream", "streaming")
    /\ cmds[c].stream # <<>>
    /\ LET ch == Head(cmds[c].stream) IN
         /\ ~ch.error
         /\ IsFinish(ch.finish)
         /\ \E st \in ChunkOutcomes(cmds[c].asm, ch.index, ch.toolCalls, 1) :
            \E order \in MapOrders(st) :
              LET toolCalls == Finalize(st, order) IN
                /\ messages' = WithComplete(AfterContent(c, ch),
                                            ContentOf(c, ch), toolCalls)
                /\ pendingToolCalls' = IF Len(toolCalls) > 0 THEN toolCalls
                                       ELSE pendingToolCalls
                /\ cmds' = [cmds EXCEPT ![c].fullContent = ContentOf(c, ch),
                                        ![c].asm = st,
                                        ![c].declared = WithDeclared(@, ch.toolCalls),
                                        ![c].reason = ch.finish,
                                        ![c].calls = toolCalls,
                                        ![c].stream = Tail(@),
                                        ![c].pc = "returned",
                                        ![c].msg = "StreamOutput"]
    /\ UNCHANGED <<waitingForApproval, loading, err, textarea, executed,
                   awaiting, accepted, asmVars, cmpVars, wireVars, xmlVars, execVars, toolVars,
                   gitVars, startVars>>

\* StreamClosed storing the calls assembled so far as the pending set
StreamClosedStoresCalls(c) ==
    /\ Running(c, "stream", "streaming")
    /\ cmds[c].stream = <<>>
    /\ \E order \in MapOrders(cmds[c].asm) :
         LET toolCalls == Finalize(cmds[c].asm, order) IN
           /\ pendingToolCalls' = IF Len(toolCalls) > 0 THEN toolCalls
                                  ELSE pendingToolCalls
           /\ cmds' = [cmds EXCEPT ![c].pc = "returned",
                                   ![c].msg = "StreamOutput"]
    /\ UNCHANGED <<messages, waitingForApproval, loading, err, textarea,
                   executed, awaiting, accepted, asmVars, cmpVars, wireVars,
                   xmlVars, execVars, toolVars, gitVars, startVars>>

\* the stream is closed and no terminal reason was seen
StreamClosed(c) ==
    /\ Running(c, "stream", "streaming")
    /\ cmds[c].stream = <<>>
    /\ cmds' = [cmds EXCEPT ![c].pc = "returned", ![c].msg = "StreamOutput"]
    /\ UNCHANGED <<messages, pendingToolCalls, waitingForApproval, loading,
                   err, textarea, executed, awaiting, accepted, asmVars, cmpVars, wireVars, xmlVars, execVars, toolVars,
                   gitVars, startVars>>

----------------------------------------------------------------------------
(* The command of executePendingTools (stream_simple.go:298-344) *)

\* the range expression m.pendingToolCalls is evaluated once
ExecStart(c) ==
    /\ Running(c, "exec", "start")
    /\ cmds' = [cmds EXCEPT ![c].calls = pendingToolCalls,
                            ![c].i = 1,
                            ![c].pc = IF Len(pendingToolCalls) > 0
                                      THEN "run" ELSE "clear"]
    /\ UNCHANGED <<messages, pendingToolCalls, waitingForApproval, loading,
                   err, textarea, executed, awaiting, accepted, asmVars, cmpVars, wireVars, xmlVars, execVars, toolVars,
                   gitVars, startVars>>

\* result := m.toolExec.Execute(tc)
ExecRun(c) ==
    /\ Running(c, "exec", "run")
    /\ LET tc == cmds[c].calls[cmds[c].i] IN
       \E outcome \in ToolOutcomes :
         /\ cmds' = [cmds EXCEPT ![c].result = Execute(tc, outcome),
                                 ![c].pc = "append"]
         /\ executed' = Append(executed,
                [cmd |-> c, origin |-> cmds[c].origin, call |-> tc,
                 result |-> Execute(tc, outcome)])
    /\ UNCHANGED <<messages, pendingToolCalls, waitingForApproval, loading,
                   err, textarea, awaiting, accepted, asmVars, cmpVars, wireVars, xmlVars, execVars, toolVars,
                   gitVars, startVars>>

\* m.messages = append(m.messages, api.NewToolMessage(tc.ID, result.Output))
ExecAppend(c) ==
    /\ Running(c, "exec", "append")
    /\ LET tc == cmds[c].calls[cmds[c].i]
           toolMsg == NewToolMessage(tc.id, cmds[c].result.output) IN
         /\ messages' = Append(messages, toolMsg)
         /\ cmds' = [cmds EXCEPT ![c].appended = Append(@, toolMsg),
                                 ![c].i = @ + 1,
                                 ![c].pc = IF cmds[c].i < Len(cmds[c].calls)
                                           THEN "run" ELSE "clear"]
    /\ UNCHANGED <<pendingToolCalls, waitingForApproval, loading, err,
                   textarea, executed, awaiting, accepted, asmVars, cmpVars, wireVars, xmlVars, execVars, toolVars,
                   gitVars, startVars>>

\* m.pendingToolCalls = nil; return toolExecutionMsg{hasMore: true}
ExecReturn(c) ==
    /\ Running(c, "exec", "clear")
    /\ pendingToolCalls' = <<>>
    /\ cmds' = [cmds EXCEPT ![c].pc = "returned", ![c].msg = "toolExecutionMsg"]
    /\ UNCHANGED <<messages, waitingForApproval, loading, err, textarea,
                   executed, awaiting, accepted, asmVars, cmpVars, wireVars, xmlVars, execVars, toolVars,
                   gitVars, startVars>>

----------------------------------------------------------------------------
(* Specifications *)

CmdIds == 1..MaxCmds

Next ==
    \/ KeyRunes
    \/ KeyAccept
    \/ KeyReject
    \/ KeyEnter
    \/ KeyCtrlC
    \/ \E c \in CmdIds : UpdateStreamOutputPlain(c)
    \/ \E c \in CmdIds : UpdateStreamOutputBlock(c)
    \/ \E c \in CmdIds : UpdateStreamOutputAuto(c)
    \/ \E c \in CmdIds : UpdateToolExecution(c)
    \/ \E c \in CmdIds : UpdateError(c)
    \/ \E c \in CmdIds : Dispatch(c)
    \/ \E c \in CmdIds : DispatchFails(c)
    \/ \E c \in CmdIds : StreamError(c)
    \/ \E c \in CmdIds : StreamDelta(c)
    \/ \E c \in CmdIds : StreamFinish(c)
    \/ \E c \in CmdIds : StreamClosed(c)
    \/ \E c \in CmdIds : ExecStart(c)
    \/ \E c \in CmdIds : ExecRun(c)
    \/ \E c \in CmdIds : ExecAppend(c)
    \/ \E c \in CmdIds : ExecReturn(c)

Spec == Init /\ [][Next]_vars

NextAsm ==
    \/ \E ch \in AsmDeltaChunks : AsmDelta(ch)
    \/ \E ch \in AsmFinishChunks : AsmFinish(ch)
    \/ AsmClose

SpecAsm == Init /\ [][NextAsm]_vars

\* One turn under the assumptions of its termination: the user sends one
\* message, and the service answers a continuation with no tool calls.

\* the answer to a request carries no tool call
NoToolCalls(resp) == \A k \in 1..Len(resp) : resp[k].toolCalls = <<>>

\* Dispatch, the service answering a continuation with no tool calls
DispatchQuiet(c) ==
    /\ Dispatch(c)
    /\ cmds[c].origin = "continuation" => NoToolCalls(cmds'[c].stream)

\* KeyEnter for the first message of the user
KeyEnterFirst == KeyEnter /\ UserSends = 0

\* a step of the goroutine of command c
CmdStep(c) ==
    \/ DispatchQuiet(c) \/ DispatchTruncated(c) \/ DispatchFails(c)
    \/ StreamError(c) \/ StreamDelta(c)
    \/ StreamFinish(c) \/ StreamClosed(c) \/ ExecStart(c) \/ ExecRun(c)
    \/ ExecAppend(c) \/ ExecReturn(c)

\* Update handling the message command c returned
UpdateStep(c) ==
    \/ UpdateStreamOutputPlain(c) \/ UpdateStreamOutputBlock(c)
    \/ UpdateStreamOutputAuto(c) \/ UpdateToolExecution(c) \/ UpdateError(c)

NextLive ==
    \/ KeyRunes
    \/ KeyAccept
    \/ KeyReject
    \/ KeyEnterFirst
    \/ KeyCtrlC
    \/ \E c \in CmdIds : UpdateStreamOutputPlain(c)
    \/ \E c \in CmdIds : UpdateStreamOutputBlock(c)
    \/ \E c \in CmdIds : UpdateStreamOutputAuto(c)
    \/ \E c \in CmdIds : UpdateToolExecution(c)
    \/ \E c \in CmdIds : UpdateError(c)
    \/ \E c \in CmdIds : DispatchQuiet(c)
    \/ \E c \in CmdIds : DispatchTruncated(c)
    \/ \E c \in CmdIds : DispatchFails(c)
    \/ \E c \in CmdIds : StreamError(c)
    \/ \E c \in CmdIds : StreamDelta(c)
    \/ \E c \in CmdIds : StreamFinish(c)
    \/ \E c \in CmdIds : StreamClosed(c)
    \/ \E c \in CmdIds : ExecStart(c)
    \/ \E c \in CmdIds : ExecRun(c)
    \/ \E c \in CmdIds : ExecAppend(c)
    \/ \E c \in CmdIds : ExecReturn(c)

\* Bubble Tea runs every command in a goroutine of its own and the Go
\* scheduler lets each runnable goroutine run; the stream of a request ends
\* and Executor.Execute returns, so a command that can take a step takes it.
\* The event loop handles every message a command returned.  The user
\* decides every approval prompt.  Nothing is assumed of the other keys.
Fairness ==
    /\ \A c \in CmdIds : WF_vars(CmdStep(c))
    /\ \A c \in CmdIds : WF_vars(UpdateStep(c))
    /\ WF_vars(KeyAccept \/ KeyReject)

SpecLive == Init /\ [][NextLive]_vars /\ Fairness

\* Start-up.  SimpleModel.Init runs before the first call of Update.

\* what agentsmd.ReadAgentsMD returns: "" when no file is found (or the
\* file is empty), else the content of the file
AgentsContents == { <<>>, <<"A">> }

\* SimpleModel.Init: ReadAgentsMD (simple_app.go:147-170).  The append is
\* to m.session.Messages; the slice of NewSimpleModel is full, so append
\* allocates, and m.messages keeps its own header and array.  No other
\* handler reads m.session.Messages.
ReadAgentsMD(content) ==
    /\ agentsMD = "unread"
    /\ Len(cmds) = 0
    /\ agentsMD' = IF content = <<>> THEN "absent" ELSE "found"
    /\ sessionMessages' = IF content = <<>> THEN sessionMessages
                          ELSE Append(sessionMessages, NewSystemMessage(content))
    /\ UNCHANGED <<tuiVars, asmVars, cmpVars, wireVars, xmlVars, execVars,
                   toolVars, gitVars>>

NextStart ==
    \/ \E content \in AgentsContents : ReadAgentsMD(content)
    \/ agentsMD # "unread" /\ NextLive

SpecStart == Init /\ [][NextStart]_vars

----------------------------------------------------------------------------
(* Manager.Compact run on its own over bounded histories *)

\* the messages a history is made of after the preamble
HistMessages ==
    { NewUserMessage(<<"h">>),
      Message("assistant", <<"t">>, <<>>, NoID),
      Message("assistant", <<>>, <<ToolCall(1, "read_file", EmptyObject)>>, NoID),
      NewToolMessage(1, <<"o">>) }

\* the preamble followed by up to MaxHistLen messages
Histories ==
    { <<NewSystemMessage(SystemPrompt)>> \o h :
        h \in UNION { [1..n -> HistMessages] : n \in 0..MaxHistLen } }

InitCompact ==
    /\ TuiInit /\ AsmInit /\ WireInit /\ XmlInit /\ ExecInit /\ ToolsInit
    /\ GitInit /\ StartInit
    /\ cmpIn \in Histories
    /\ cmpMax \in 1..MaxMaxMessages
    /\ cmpOut = <<>>
    /\ cmpDone = FALSE
    /\ cmpAgain = <<>>
    /\ cmpAgainDone = FALSE
    /\ cmpStrategy = ""
    /\ cmpStratOut = <<>>

\* m.messages = m.contextMgr.Compact(m.messages)
CompactRun ==
    /\ ~cmpDone
    /\ cmpOut' = CompactWith(cmpIn, cmpMax)
    /\ cmpDone' = TRUE
    /\ UNCHANGED <<cmpIn, cmpMax, cmpAgain, cmpAgainDone, cmpStrategy,
                   cmpStratOut, tuiVars, asmVars, wireVars, xmlVars, execVars, toolVars,
                   gitVars, startVars>>

\* the same call once more, on the history the first call returned
CompactRunAgain ==
    /\ cmpDone
    /\ ~cmpAgainDone
    /\ cmpAgain' = CompactWith(cmpOut, cmpMax)
    /\ cmpAgainDone' = TRUE
    /\ UNCHANGED <<cmpIn, cmpMax, cmpOut, cmpDone, cmpStrategy, cmpStratOut,
                   tuiVars, asmVars, wireVars, xmlVars, execVars, toolVars,
                   gitVars, startVars>>

\* Manager.CompactWithStrategy called on the history
CompactStrategyRun(strategy) ==
    /\ cmpStrategy = ""
    /\ cmpStrategy' = strategy
    /\ cmpStratOut' = CompactWithStrategy(cmpIn, cmpMax, strategy)
    /\ UNCHANGED <<cmpIn, cmpMax, cmpOut, cmpDone, cmpAgain, cmpAgainDone,
                   tuiVars, asmVars, wireVars, xmlVars, execVars, toolVars,
                   gitVars, startVars>>

NextCompact ==
    \/ CompactRun
    \/ CompactRunAgain
    \/ \E strategy \in Strategies : CompactStrategyRun(strategy)

SpecCompact == InitCompact /\ [][NextCompact]_vars

----------------------------------------------------------------------------
(* One streaming request: the goroutine of Client.StreamChatCompletion      *)
(* (part_002:484-544), the range of processStreamNew over its unbuffered    *)
(* channel (stream_simple.go:123-295), Update and executePendingTools       *)

Line(kind, chunk) == [kind |-> kind, chunk |-> chunk]

\* data: {"choices":[{"delta":{"content":"t"}}]}
TextLine == Line("data", DataChunk(<<"t">>, <<>>, ""))

\* data: a chunk declaring the allow-listed call 1, finish_reason tool_calls
CallLine ==
    Line("data", DataChunk(<<>>, <<Fragment(1, "list_tools", <<>>)>>, "tool_calls"))

\* data: a chunk with finish_reason stop
StopLine == Line("data", DataChunk(<<>>, <<>>, "stop"))

\* data: {"choices":[],"usage":{...}}
UsageLine == Line("usage", NoChoices)

\* data: followed by text json.Unmarshal rejects
BadLine == Line("bad", NoChoices)

\* a line that is empty after TrimSpace
BlankLine == Line("blank", NoChoices)

\* a line without the prefix "data: "
OtherLine == Line("other", NoChoices)

\* data: [DONE]
DoneLine == Line("done", NoChoices)

Lines ==
    {TextLine, CallLine, StopLine, UsageLine, BadLine, BlankLine, OtherLine,
     DoneLine}

\* the response bodies of up to MaxBodyLen lines
Bodies == UNION { [1..n -> Lines] : n \in 0..MaxBodyLen }

\* what ReadString returns after the last line: io.EOF or another error
Ends == {"eof", "reset"}

\* StreamChatCompletionWithTools returns the channel, the goroutine starts
\* reading and processStreamNew starts its range
WireDispatch(body, end) ==
    /\ wpc = "idle"
    /\ wBody' = body
    /\ wEnd' = end
    /\ wpc' = "read"
    /\ wcpc' = "range"
    /\ UNCHANGED <<wPos, wEv, wClosed, wcMsg, wContent, wAsm, wPending, wxpc,
                   tuiVars, asmVars, cmpVars, xmlVars, execVars, toolVars,
                   gitVars, startVars>>

\* the decoder is about to read the line wBody[wPos + 1]
Reading(kinds) ==
    /\ wpc = "read"
    /\ wPos < Len(wBody)
    /\ wBody[wPos + 1].kind \in kinds

\* ReadString fails: io.EOF returns, any other error is sent first
\* (part_002:498-504); the deferred calls close the body and the channel
WireReadEnd ==
    /\ wpc = "read"
    /\ wPos = Len(wBody)
    /\ IF wEnd = "eof"
       THEN /\ wpc' = "done"
            /\ wClosed' = wClosed + 1
            /\ wEv' = wEv
       ELSE /\ wpc' = "sendLast"
            /\ wEv' = WireError
            /\ wClosed' = wClosed
    /\ UNCHANGED <<wBody, wEnd, wPos, wcpc, wcMsg, wContent, wAsm, wPending,
                   wxpc, tuiVars, asmVars, cmpVars, xmlVars, execVars, toolVars,
                   gitVars, startVars>>

\* an empty line or a line without the data prefix (part_002:506-511)
WireReadSkip ==
    /\ Reading({"blank", "other"})
    /\ wPos' = wPos + 1
    /\ UNCHANGED <<wBody, wEnd, wpc, wEv, wClosed, wcpc, wcMsg, wContent, wAsm,
                   wPending, wxpc, tuiVars, asmVars, cmpVars, xmlVars, execVars, toolVars,
                   gitVars, startVars>>

\* data: [DONE] returns (part_002:513-516)
WireReadDone ==
    /\ Reading({"done"})
    /\ wPos' = wPos + 1
    /\ wpc' = "done"
    /\ wClosed' = wClosed + 1
    /\ UNCHANGED <<wBody, wEnd, wEv, wcpc, wcMsg, wContent, wAsm, wPending,
                   wxpc, tuiVars, asmVars, cmpVars, xmlVars, execVars, toolVars,
                   gitVars, startVars>>

\* a frame that does not decode: the error event is sent and the loop
\* continues (part_002:519-523)
WireReadBad ==
    /\ Reading({"bad"})
    /\ wPos' = wPos + 1
    /\ wpc' = "send"
    /\ wEv' = WireError
    /\ UNCHANGED <<wBody, wEnd, wClosed, wcpc, wcMsg, wContent, wAsm, wPending,
                   wxpc, tuiVars, asmVars, cmpVars, xmlVars, execVars, toolVars,
                   gitVars, startVars>>

\* a frame that decodes (part_002:518-541)
WireReadData ==
    /\ Reading({"data", "usage"})
    /\ wPos' = wPos + 1
    /\ wpc' = "send"
    /\ wEv' = DataEvent(wBody[wPos + 1].kind, wBody[wPos + 1].chunk)
    /\ UNCHANGED <<wBody, wEnd, wClosed, wcpc, wcMsg, wContent, wAsm, wPending,
                   wxpc, tuiVars, asmVars, cmpVars, xmlVars, execVars, toolVars,
                   gitVars, startVars>>

\* the send on the unbuffered channel meets the receive of the range
HandOver == wpc \in {"send", "sendLast"} /\ wcpc = "range"

\* the decoder after its send: the next iteration, or return after the
\* error of a failed read
AfterSend ==
    /\ wEv' = NoEvent
    /\ IF wpc = "send"
       THEN wpc' = "read" /\ wClosed' = wClosed
       ELSE wpc' = "done" /\ wClosed' = wClosed + 1

\* event.Error != nil: processStreamNew returns errorMsg
\* (stream_simple.go:124-127)
WireRecvError ==
    /\ HandOver
    /\ wEv.kind = "error"
    /\ AfterSend
    /\ wcpc' = "returned"
    /\ wcMsg' = "errorMsg"
    /\ UNCHANGED <<wBody, wEnd, wPos, wContent, wAsm, wPending, wxpc,
                   tuiVars, asmVars, cmpVars, xmlVars, execVars, toolVars,
                   gitVars, startVars>>

\* a chunk without choices, or one whose choice has no terminal reason
\* (stream_simple.go:129-209)
WireRecvDelta ==
    /\ HandOver
    /\ \/ wEv.kind = "usage"
       \/ wEv.kind = "data" /\ ~IsFinish(wEv.chunk.finish)
    /\ AfterSend
    /\ wContent' = wContent \o wEv.chunk.content
    /\ wAsm' \in ChunkOutcomes(wAsm, wEv.chunk.index, wEv.chunk.toolCalls, 1)
    /\ UNCHANGED <<wBody, wEnd, wPos, wcpc, wcMsg, wPending, wxpc,
                   tuiVars, asmVars, cmpVars, xmlVars, execVars, toolVars,
                   gitVars, startVars>>

\* a chunk with finish_reason stop or tool_calls: processStreamNew returns
\* from inside the range (stream_simple.go:212-288)
WireRecvFinish ==
    /\ HandOver
    /\ wEv.kind = "data"
    /\ IsFinish(wEv.chunk.finish)
    /\ AfterSend
    /\ wContent' = wContent \o wEv.chunk.content
    /\ \E st \in ChunkOutcomes(wAsm, wEv.chunk.index, wEv.chunk.toolCalls, 1) :
       \E order \in MapOrders(st) :
         /\ wAsm' = st
         /\ wPending' = IF Len(Finalize(st, order)) > 0
                        THEN Finalize(st, order)
                        ELSE wPending
    /\ wcpc' = "returned"
    /\ wcMsg' = "StreamOutput"
    /\ UNCHANGED <<wBody, wEnd, wPos, wxpc, tuiVars, asmVars, cmpVars, xmlVars, execVars, toolVars,
                   gitVars, startVars>>

\* the channel is closed: the range ends (stream_simple.go:293-294)
WireRecvClosed ==
    /\ wpc = "done"
    /\ wcpc = "range"
    /\ wcpc' = "returned"
    /\ wcMsg' = "StreamOutput"
    /\ UNCHANGED <<wBody, wEnd, wPos, wpc, wEv, wClosed, wContent, wAsm,
                   wPending, wxpc, tuiVars, asmVars, cmpVars, xmlVars, execVars, toolVars,
                   gitVars, startVars>>

\* Update handles the message of the command; with allow-listed calls
\* pending it starts executePendingTools (simple_app.go:253-326, 471-504)
WireUpdate ==
    /\ wcpc = "returned"
    /\ wcpc' = "handled"
    /\ wxpc' = IF /\ wcMsg = "StreamOutput"
                  /\ Len(wPending) > 0
                  /\ ~needsApproval(wPending)
               THEN "start"
               ELSE wxpc
    /\ UNCHANGED <<wBody, wEnd, wPos, wpc, wEv, wClosed, wcMsg, wContent, wAsm,
                   wPending, tuiVars, asmVars, cmpVars, xmlVars, execVars, toolVars,
                   gitVars, startVars>>

\* executePendingTools calls Executor.Execute for the first pending call
\* (stream_simple.go:303-311)
WireExecute ==
    /\ wxpc = "start"
    /\ wxpc' = "ran"
    /\ UNCHANGED <<wBody, wEnd, wPos, wpc, wEv, wClosed, wcpc, wcMsg, wContent,
                   wAsm, wPending, tuiVars, asmVars, cmpVars, xmlVars, execVars, toolVars,
                   gitVars, startVars>>

NextWire ==
    \/ \E body \in Bodies : \E end \in Ends : WireDispatch(body, end)
    \/ WireReadEnd
    \/ WireReadSkip
    \/ WireReadDone
    \/ WireReadBad
    \/ WireReadData
    \/ WireRecvError
    \/ WireRecvDelta
    \/ WireRecvFinish
    \/ WireRecvClosed
    \/ WireUpdate
    \/ WireExecute

SpecWire == Init /\ [][NextWire]_vars

----------------------------------------------------------------------------
(* The fallback parser (part_002:610-768) and the turns of                 *)
(* Model.processStream that end in it (part_003:164-285).  A text is a     *)
(* sequence of tokens: tags, newlines and pieces of plain text.            *)

Tok(k, v, w) == [k |-> k, v |-> v, w |-> w]

FnOpen(name) == Tok("fnopen", name, "")     \* <function=name>
FnClose == Tok("fnclose", "", "")           \* </function>
ParOpen(name) == Tok("paropen", name, "")   \* <parameter=name>
ParClose == Tok("parclose", "", "")         \* </parameter>
TcOpen == Tok("tcopen", "", "")             \* <tool_call>
TcClose == Tok("tcclose", "", "")           \* </tool_call>
FnTag(name) == Tok("fntag", name, "")       \* <function>name</function>
Word(text) == Tok("word", text, "")         \* text without tag, colon, brace
KeyValue(key, value) == Tok("kv", key, value)   \* key: value
BraceText == Tok("json", "{}", "")          \* {}
NewLine == Tok("nl", "", "")                \* \n

\* the first index from i on whose token is of kind k, 0 if there is none
RECURSIVE FirstOf(_, _, _)
FirstOf(text, i, k) ==
    IF i > Len(text) THEN 0
    ELSE IF text[i].k = k THEN i
    ELSE FirstOf(text, i + 1, k)

\* . does not match a newline
HasNewLine(text, a, b) == \E j \in a..b : text[j].k = "nl"

\* where (.*?) followed by the closing tag k ends for an opening tag at i,
\* 0 if the pattern does not match at i
CloseAfter(text, i, k) ==
    LET j == FirstOf(text, i + 1, k)
    IN IF j = 0 \/ HasNewLine(text, i + 1, j - 1) THEN 0 ELSE j

\* the opening tag open, of the name given unless it is ""
OpensAt(text, p, open, name) ==
    /\ text[p].k = open
    /\ name = "" \/ text[p].v = name

\* FindAllStringSubmatch for <open=(\w+)>(.*?)</close> from p on: the
\* leftmost matches, none overlapping another
RECURSIVE Submatches(_, _, _, _, _)
Submatches(text, p, open, name, close) ==
    IF p > Len(text) THEN <<>>
    ELSE IF OpensAt(text, p, open, name) /\ CloseAfter(text, p, close) # 0
    THEN <<[name |-> text[p].v,
            body |-> SubSeq(text, p + 1, CloseAfter(text, p, close) - 1)]>>
         \o Submatches(text, CloseAfter(text, p, close) + 1, open, name, close)
    ELSE Submatches(text, p + 1, open, name, close)

\* where <tool_call>.*?<function>(\w+)</function>.*?</tool_call> ends for
\* a <tool_call> at i, 0 if the pattern does not match at i
ToolCallEnd(text, i) ==
    LET j == FirstOf(text, i + 1, "fntag")
        e == IF j = 0 THEN 0 ELSE FirstOf(text, j + 1, "tcclose")
    IN IF e = 0 \/ HasNewLine(text, i + 1, e - 1) THEN 0 ELSE e

\* FindAllStringSubmatch for the tool_call pattern from p on
RECURSIVE ToolCallMatches(_, _)
ToolCallMatches(text, p) ==
    IF p > Len(text) THEN <<>>
    ELSE IF text[p].k = "tcopen" /\ ToolCallEnd(text, p) # 0
    THEN <<[name |-> text[FirstOf(text, p + 1, "fntag")].v]>>
         \o ToolCallMatches(text, ToolCallEnd(text, p) + 1)
    ELSE ToolCallMatches(text, p + 1)

\* a key of a JSON object
Key(name) == <<Word(name)>>

\* params[key] = value
MapPut(params, key, value) ==
    [k \in DOMAIN params \cup {key} |-> IF k = key THEN value ELSE params[k]]

\* the map a range over the matches fills, a later match overwriting
RECURSIVE ParamsOf(_, _)
ParamsOf(matches, params) ==
    IF matches = <<>> THEN params
    ELSE ParamsOf(Tail(matches),
                  MapPut(params, Key(Head(matches).name), Head(matches).body))

\* json.Marshal of a map: an object, which is the text {} for the empty map
JSONObject(params) == [kind |-> "object", map |-> params]

\* a text returned as it is; the text {} is the empty object
JSONText(content) ==
    IF content = <<BraceText>> THEN JSONObject(<<>>)
    ELSE [kind |-> "text", map |-> content]

\* strings.HasPrefix(content, "{") && strings.HasSuffix(content, "}")
InBraces(content) ==
    /\ content # <<>>
    /\ content[1].k = "json"
    /\ content[Len(content)].k = "json"

\* the key: value lines of a content (part_002:741-751); a content has one
\* line, a newline ends the match of the function pattern
LineParams(content) ==
    LET t == FirstOf(content, 1, "kv")
    IN IF t = 0 THEN <<>>
       ELSE MapPut(<<>>,
                   SubSeq(content, 1, t - 1) \o <<Word(content[t].v)>>,
                   <<Word(content[t].w)>> \o SubSeq(content, t + 1, Len(content)))

\* extractParameters (part_002:712-768)
extractParameters(content) ==
    LET tagged == ParamsOf(Submatches(content, 1, "paropen", "", "parclose"), <<>>)
    IN IF InBraces(content) THEN JSONText(content)
       ELSE IF DOMAIN tagged # {} THEN JSONObject(tagged)
       ELSE IF DOMAIN LineParams(content) # {} THEN JSONObject(LineParams(content))
       ELSE IF content # <<>> THEN JSONObject(MapPut(<<>>, Key("value"), content))
       ELSE JSONObject(<<>>)

\* fmt.Sprintf("call_%d", i), fmt.Sprintf("tool_%d", i)
FallbackID(prefix, i) == <<prefix, i>>

\* the arguments of the special case for execute_command (part_002:622-645)
CommandArguments(paramsContent) ==
    LET cmdMatch == Submatches(paramsContent, 1, "paropen", "command", "parclose")
    IN JSONObject(MapPut(<<>>, Key("command"),
                         IF cmdMatch # <<>> THEN cmdMatch[1].body
                         ELSE paramsContent))

\* the calls of pattern 1 (part_002:614-670)
FunctionCalls(matches) ==
    [i \in 1..Len(matches) |->
        ToolCall(FallbackID("call", i - 1), matches[i].name,
                 IF matches[i].name = "execute_command"
                 THEN CommandArguments(matches[i].body)
                 ELSE IF matches[i].body # <<>>
                 THEN extractParameters(matches[i].body)
                 ELSE JSONObject(<<>>))]

\* the calls of pattern 2 (part_002:672-706): the parameters are those of
\* the whole content
ToolCallCalls(content, matches) ==
    LET params == ParamsOf(Submatches(content, 1, "paropen", "", "parclose"), <<>>)
    IN [i \in 1..Len(matches) |->
          ToolCall(FallbackID("tool", i - 1), matches[i].name, JSONObject(params))]

\* parseXMLToolCalls
parseXMLToolCalls(content) ==
    FunctionCalls(Submatches(content, 1, "fnopen", "", "fnclose"))
    \o ToolCallCalls(content, ToolCallMatches(content, 1))

\* strings.Contains(finalContent, "<function=") ||
\* strings.Contains(finalContent, "<tool_call>")
HasMarker(content) ==
    \E i \in 1..Len(content) : content[i].k \in {"fnopen", "tcopen"}

\* ---- the texts of the runs ----

FnNames == {"execute_command", "read_file"}

ParNames == {"command", "working_dir"}

RECURSIVE Flat(_)
Flat(ss) == IF ss = <<>> THEN <<>> ELSE Head(ss) \o Flat(Tail(ss))

ParamPieces == { <<ParOpen(n), Word("v"), ParClose>> : n \in ParNames }

Pieces ==
    ParamPieces
    \cup { <<Word("w")>>, <<KeyValue("path", "a")>>, <<BraceText>>, <<NewLine>> }

TagBodies == { Flat(ps) : ps \in UNION { [1..n -> Pieces] : n \in 0..MaxPieces } }

Elements ==
    { <<FnOpen(n)>> \o b \o <<FnClose>> : n \in FnNames, b \in TagBodies }
    \cup { <<TcOpen, FnTag(n)>> \o b \o <<TcClose>> :
             n \in FnNames, b \in {<<>>} \cup ParamPieces }

\* the finalized texts: plain text, or up to MaxElements function tags
Texts ==
    { <<Word("w")>> }
    \cup { Flat(es) : es \in UNION { [1..n -> Elements] : n \in 1..MaxElements } }

\* the finalized texts of the turns after the first
TurnTexts ==
    { <<FnOpen("read_file"), ParOpen("command"), Word("v"), ParClose, FnClose>>,
      <<FnOpen("execute_command"), FnClose>>,
      <<TcOpen, FnTag("read_file"), TcClose>> }

\* the outputs a tool returns
Outputs == { <<"o">>, <<"p">> }

InitXml ==
    /\ TuiInit /\ AsmInit /\ CmpInit /\ WireInit /\ ExecInit /\ ToolsInit
    /\ GitInit /\ StartInit
    /\ xText \in Texts
    /\ xParsed = <<>>
    /\ xCalls = <<>>
    /\ xMessages = <<NewSystemMessage(SystemPrompt), NewUserMessage(<<"h">>)>>
    /\ xLog = <<>>
    /\ xTurn = 1
    /\ xpc = "finish"

\* the terminal reason of a turn without native tool calls
\* (part_003:164-219)
XmlFinish ==
    /\ xpc = "finish"
    /\ LET xmlToolCalls == IF HasMarker(xText) THEN parseXMLToolCalls(xText)
                           ELSE <<>>
           content == IF Len(xmlToolCalls) > 0 THEN <<>> ELSE xText
       IN /\ xParsed' = xmlToolCalls
          /\ xMessages' = WithComplete(xMessages, content, xmlToolCalls)
          /\ xCalls' = IF Len(xmlToolCalls) > 0 THEN xmlToolCalls ELSE xCalls
          /\ xpc' = IF Len(xmlToolCalls) > 0 THEN "execute" ELSE "done"
    /\ UNCHANGED <<xText, xLog, xTurn, tuiVars, asmVars, cmpVars, wireVars, execVars, toolVars,
                   gitVars, startVars>>

\* the tool messages executePendingTools appends for calls and outputs
ToolMessages(calls, outs) ==
    [k \in 1..Len(calls) |-> NewToolMessage(calls[k].id, outs[k])]

\* Model.executePendingTools (part_003:265-285)
XmlExecute ==
    /\ xpc = "execute"
    /\ \E outs \in [1..Len(xCalls) -> Outputs] :
         /\ xMessages' = xMessages \o ToolMessages(xCalls, outs)
         /\ xLog' = xLog \o [k \in 1..Len(xCalls) |->
                                [id |-> xCalls[k].id, output |-> outs[k]]]
    /\ xCalls' = <<>>
    /\ xpc' = "continue"
    /\ UNCHANGED <<xText, xParsed, xTurn, tuiVars, asmVars, cmpVars, wireVars, execVars, toolVars,
                   gitVars, startVars>>

\* the continuation request streams a text up to its terminal reason
\* (part_003:302-315)
XmlContinue(text) ==
    /\ xpc = "continue"
    /\ xTurn < MaxXmlTurns
    /\ xText' = text
    /\ xTurn' = xTurn + 1
    /\ xpc' = "finish"
    /\ UNCHANGED <<xParsed, xCalls, xMessages, xLog, tuiVars, asmVars, cmpVars,
                   wireVars, execVars, toolVars,
                   gitVars, startVars>>

NextXml ==
    \/ XmlFinish
    \/ XmlExecute
    \/ \E text \in TurnTexts : XmlContinue(text)

SpecXml == InitXml /\ [][NextXml]_vars

----------------------------------------------------------------------------
(* ExecuteCommand (internal/tools/execute_command.go:18-122): the caller,  *)
(* the goroutine running cmd.CombinedOutput, the sh process and the        *)
(* processes sh starts for the command.  Time is not measured: the timer   *)
(* fires at some point after it was armed.                                  *)

\* out[:config.MaxOutputSize] plus the truncation note
\* (execute_command.go:65-69, 82-86)
Limited(out) ==
    IF out > MaxOutputSize THEN [len |-> MaxOutputSize, truncated |-> TRUE]
    ELSE [len |-> out, truncated |-> FALSE]

\* args["command"].(string) (execute_command.go:23)
CommandArgs == { "string", "missing" }

\* execute_command.go:18-59: the argument check, exec.Command, the timer,
\* the two channels and the goroutine
ExecBegin(command) ==
    /\ epc = "idle"
    /\ IF command = "missing"
       THEN /\ eResult' = ExecResult("badargs", 0, FALSE, TRUE)
            /\ epc' = "returned"
            /\ UNCHANGED <<egpc, eTimer>>
       ELSE /\ eTimer' = "armed"
            /\ egpc' = "start"
            /\ epc' = "select"
            /\ UNCHANGED eResult
    /\ UNCHANGED <<eProcess, eSh, eChildren, eOut, eOutput, eErrChan,
                   tuiVars, asmVars, cmpVars, wireVars, xmlVars, toolVars,
                   gitVars, startVars>>

\* cmd.Start inside CombinedOutput (execute_command.go:54): sh is started
\* and cmd.Process set, or the start fails (a working directory that does
\* not exist) and Process stays nil.  Nothing stops the goroutine when the
\* caller has returned.
CmdStart(ok) ==
    /\ egpc = "start"
    /\ IF ok
       THEN /\ eProcess' = TRUE
            /\ eSh' = "running"
            /\ egpc' = "wait"
       ELSE /\ egpc' = "sendOut"
            /\ UNCHANGED <<eProcess, eSh>>
    /\ UNCHANGED <<epc, eChildren, eOut, eTimer, eOutput, eErrChan, eResult,
                   tuiVars, asmVars, cmpVars, wireVars, xmlVars, toolVars,
                   gitVars, startVars>>

\* sh starts a process for a command of the line it was given
ShFork ==
    /\ eSh = "running"
    /\ eChildren < MaxChildren
    /\ eChildren' = eChildren + 1
    /\ UNCHANGED <<epc, egpc, eProcess, eSh, eOut, eTimer, eOutput, eErrChan,
                   eResult, tuiVars, asmVars, cmpVars, wireVars, xmlVars, toolVars,
                   gitVars, startVars>>

\* a running process writes a byte to the pipe
ProcWrite ==
    /\ eSh = "running" \/ eChildren > 0
    /\ eOut < MaxOut
    /\ eOut' = eOut + 1
    /\ UNCHANGED <<epc, egpc, eProcess, eSh, eChildren, eTimer, eOutput,
                   eErrChan, eResult, tuiVars, asmVars, cmpVars, wireVars,
                   xmlVars, toolVars,
                   gitVars, startVars>>

\* a process sh started exits
ChildExit ==
    /\ eChildren > 0
    /\ eChildren' = eChildren - 1
    /\ UNCHANGED <<epc, egpc, eProcess, eSh, eOut, eTimer, eOutput, eErrChan,
                   eResult, tuiVars, asmVars, cmpVars, wireVars, xmlVars, toolVars,
                   gitVars, startVars>>

\* sh exits by itself with status zero or not
ShExit(status) ==
    /\ eSh = "running"
    /\ eSh' = status
    /\ UNCHANGED <<epc, egpc, eProcess, eChildren, eOut, eTimer, eOutput,
                   eErrChan, eResult, tuiVars, asmVars, cmpVars, wireVars,
                   xmlVars, toolVars,
                   gitVars, startVars>>

\* cmd.Wait inside CombinedOutput returns: sh is gone and every process
\* holding the output pipe has closed it
CmdWait ==
    /\ egpc = "wait"
    /\ eSh \in {"exited", "failed", "killed"}
    /\ eChildren = 0
    /\ egpc' = "sendOut"
    /\ UNCHANGED <<epc, eProcess, eSh, eChildren, eOut, eTimer, eOutput,
                   eErrChan, eResult, tuiVars, asmVars, cmpVars, wireVars,
                   xmlVars, toolVars,
                   gitVars, startVars>>

\* err != nil for the goroutine: the start failed or sh did not exit with 0
CmdFailed == eSh \in {"none", "failed", "killed"}

\* output <- out (execute_command.go:55); the channel has room for one
SendOutput ==
    /\ egpc = "sendOut"
    /\ eOutput' = <<eOut>>
    /\ egpc' = IF CmdFailed THEN "sendErr" ELSE "done"
    /\ UNCHANGED <<epc, eProcess, eSh, eChildren, eOut, eTimer, eErrChan,
                   eResult, tuiVars, asmVars, cmpVars, wireVars, xmlVars, toolVars,
                   gitVars, startVars>>

\* errChan <- err (execute_command.go:56-58)
SendErr ==
    /\ egpc = "sendErr"
    /\ eErrChan' = <<TRUE>>
    /\ egpc' = "done"
    /\ UNCHANGED <<epc, eProcess, eSh, eChildren, eOut, eTimer, eOutput,
                   eResult, tuiVars, asmVars, cmpVars, wireVars, xmlVars, toolVars,
                   gitVars, startVars>>

\* the timer set at execute_command.go:46 expires
TimerFire ==
    /\ eTimer = "armed"
    /\ eTimer' = "fired"
    /\ UNCHANGED <<epc, egpc, eProcess, eSh, eChildren, eOut, eOutput,
                   eErrChan, eResult, tuiVars, asmVars, cmpVars, wireVars,
                   xmlVars, toolVars,
                   gitVars, startVars>>

\* defer timer.Stop() (execute_command.go:47)
Stopped(timer) == IF timer = "armed" THEN "stopped" ELSE timer

\* case out := <-output (execute_command.go:63-76)
SelectOutput ==
    /\ epc = "select"
    /\ eOutput # <<>>
    /\ LET out == Limited(Head(eOutput))
       IN eResult' = ExecResult("output", out.len, out.truncated, FALSE)
    /\ eOutput' = <<>>
    /\ eTimer' = Stopped(eTimer)
    /\ epc' = "returned"
    /\ UNCHANGED <<egpc, eProcess, eSh, eChildren, eOut, eErrChan, tuiVars,
                   asmVars, cmpVars, wireVars, xmlVars, toolVars,
                   gitVars, startVars>>

\* case err := <-errChan, with the inner select on output
\* (execute_command.go:78-101)
SelectErr ==
    /\ epc = "select"
    /\ eErrChan # <<>>
    /\ IF eOutput # <<>> /\ Head(eOutput) > 0
       THEN LET out == Limited(Head(eOutput))
            IN eResult' = ExecResult("output", out.len, out.truncated, TRUE)
       ELSE eResult' = ExecResult("failed", 0, FALSE, TRUE)
    /\ eOutput' = <<>>
    /\ eErrChan' = <<>>
    /\ eTimer' = Stopped(eTimer)
    /\ epc' = "returned"
    /\ UNCHANGED <<egpc, eProcess, eSh, eChildren, eOut, tuiVars, asmVars,
                   cmpVars, wireVars, xmlVars, toolVars,
                   gitVars, startVars>>

\* case <-timer.C (execute_command.go:103-120).  cmd.Process is written by
\* the goroutine and read here with nothing ordering the two, so the read
\* sees the process (seen) or still nil.  Process.Kill ends sh alone, taken
\* here to have died by the time Kill returns; the processes sh started
\* are not signalled.
SelectTimeout(seen) ==
    /\ epc = "select"
    /\ eTimer = "fired"
    /\ seen => eProcess
    /\ eSh' = IF seen /\ eSh = "running" THEN "killed" ELSE eSh
    /\ eResult' = ExecResult("timeout", 0, FALSE, TRUE)
    /\ epc' = "returned"
    /\ UNCHANGED <<egpc, eProcess, eChildren, eOut, eTimer, eOutput,
                   eErrChan, tuiVars, asmVars, cmpVars, wireVars, xmlVars, toolVars,
                   gitVars, startVars>>

NextExec ==
    \/ \E command \in CommandArgs : ExecBegin(command)
    \/ \E ok \in BOOLEAN : CmdStart(ok)
    \/ ShFork
    \/ ProcWrite
    \/ ChildExit
    \/ \E status \in {"exited", "failed"} : ShExit(status)
    \/ CmdWait
    \/ SendOutput
    \/ SendErr
    \/ TimerFire
    \/ SelectOutput
    \/ SelectErr
    \/ \E seen \in BOOLEAN : SelectTimeout(seen)

SpecExec == Init /\ [][NextExec]_vars

----------------------------------------------------------------------------
(* The registry in use: list_tools is called, a request offers the tools,  *)
(* the model answers with calls and the Executor dispatches them           *)

\* the callback of list_tools runs with args.Format = format
ToolsList(format) ==
    /\ tListing' = ListTools(format)
    /\ tListing' # tListing
    /\ UNCHANGED <<tOffered, tCalls, tResults, tuiVars, asmVars, cmpVars,
                   wireVars, xmlVars, execVars,
                   gitVars, startVars>>

\* a request is sent with tools.GetBuiltinTools() (stream_simple.go:88)
ToolsOffer ==
    /\ tOffered = <<>>
    /\ tOffered' = GetBuiltinTools
    /\ UNCHANGED <<tListing, tCalls, tResults, tuiVars, asmVars, cmpVars,
                   wireVars, xmlVars, execVars,
                   gitVars, startVars>>

\* the names of the tools offered
OfferedNames == { tOffered[i].function.name : i \in 1..Len(tOffered) }

\* the names a model answers with: an offered one, or one of its own
CallNames == OfferedNames \cup {"search_web"}

\* the model answers with a call
ToolsCall(name) ==
    /\ tOffered # <<>>
    /\ Len(tCalls) < MaxToolCalls
    /\ tCalls' = Append(tCalls, ToolCall(Len(tCalls) + 1, name, EmptyObject))
    /\ UNCHANGED <<tListing, tOffered, tResults, tuiVars, asmVars, cmpVars,
                   wireVars, xmlVars, execVars,
                   gitVars, startVars>>

\* Executor.Execute on the next call
ToolsExecute(outcome) ==
    /\ Len(tResults) < Len(tCalls)
    /\ tResults' = Append(tResults,
                          ExecutorExecute(tCalls[Len(tResults) + 1], outcome))
    /\ UNCHANGED <<tListing, tOffered, tCalls, tuiVars, asmVars, cmpVars,
                   wireVars, xmlVars, execVars,
                   gitVars, startVars>>

NextTools ==
    \/ \E format \in Formats : ToolsList(format)
    \/ ToolsOffer
    \/ \E name \in CallNames : ToolsCall(name)
    \/ \E outcome \in ToolOutcomes : ToolsExecute(outcome)

SpecTools == Init /\ [][NextTools]_vars

----------------------------------------------------------------------------
(* GitGrep (internal/tools/git_grep.go:23-118) and GitLsFiles              *)
(* (internal/tools/git_ls_files.go:29-144): the caller, the goroutine      *)
(* running cmd.CombinedOutput and the git process                           *)

GitTools == { "git_grep", "git_ls_files" }

\* json.Unmarshal of the arguments (git_grep.go:29, git_ls_files.go:35)
GitArgs == { "valid", "invalid" }

\* exit statuses of git: 0, 1 (git grep found nothing), 2 (another failure),
\* 128 (not a git repository, bad option)
ExitStatuses == { "exit0", "exit1", "exit2", "exit128" }

\* git_grep.go:23-86, git_ls_files.go:29-109: the argument check,
\* exec.Command, the timer, the two channels and the goroutine
GitBegin(tool, args) ==
    /\ gpc = "idle"
    /\ gTool' = tool
    /\ IF args = "invalid"
       THEN /\ gResult' = ExecResult("invalid", 0, FALSE, TRUE)
            /\ gpc' = "returned"
            /\ UNCHANGED <<ggpc, gTimer>>
       ELSE /\ gpc' = "select"
            /\ ggpc' = "start"
            /\ gTimer' = "armed"
            /\ UNCHANGED gResult
    /\ UNCHANGED <<gProc, gOut, gOutput, gErrChan, tuiVars, asmVars, cmpVars,
                   wireVars, xmlVars, execVars, toolVars, startVars>>

\* cmd.Start inside CombinedOutput: git is started, or there is no git
\* binary and CombinedOutput returns an error that is no *exec.ExitError
GitStart(ok) ==
    /\ ggpc = "start"
    /\ gProc' = IF ok THEN "running" ELSE "nostart"
    /\ ggpc' = IF ok THEN "wait" ELSE "send"
    /\ UNCHANGED <<gTool, gpc, gOut, gTimer, gOutput, gErrChan, gResult,
                   tuiVars, asmVars, cmpVars, wireVars, xmlVars, execVars,
                   toolVars, startVars>>

\* git writes a byte to its output
GitWrite ==
    /\ gProc = "running"
    /\ gOut < MaxOut
    /\ gOut' = gOut + 1
    /\ UNCHANGED <<gTool, gpc, ggpc, gProc, gTimer, gOutput, gErrChan,
                   gResult, tuiVars, asmVars, cmpVars, wireVars, xmlVars,
                   execVars, toolVars, startVars>>

\* git exits
GitExit(status) ==
    /\ gProc = "running"
    /\ gProc' = status
    /\ UNCHANGED <<gTool, gpc, ggpc, gOut, gTimer, gOutput, gErrChan,
                   gResult, tuiVars, asmVars, cmpVars, wireVars, xmlVars,
                   execVars, toolVars, startVars>>

\* cmd.Wait inside CombinedOutput returns
GitWait ==
    /\ ggpc = "wait"
    /\ gProc # "running"
    /\ ggpc' = "send"
    /\ UNCHANGED <<gTool, gpc, gProc, gOut, gTimer, gOutput, gErrChan,
                   gResult, tuiVars, asmVars, cmpVars, wireVars, xmlVars,
                   execVars, toolVars, startVars>>

\* the rest of the goroutine (git_grep.go:77-85, git_ls_files.go:100-108).
\* err is nil for exit status 0 only.  GitGrep sends "No matches found" for
\* exit status 1, GitLsFiles an error for exit status 128, and neither
\* sends anything for any other error.  Both channels have room for one.
GitSend ==
    /\ ggpc = "send"
    /\ gOutput' =
         IF gProc = "exit0" THEN <<[text |-> "out", len |-> gOut]>>
         ELSE IF gTool = "git_grep" /\ gProc = "exit1"
              THEN <<[text |-> "nomatch", len |-> 0]>>
         ELSE gOutput
    /\ gErrChan' =
         IF gTool = "git_ls_files" /\ gProc = "exit128" THEN <<TRUE>>
         ELSE gErrChan
    /\ ggpc' = "done"
    /\ UNCHANGED <<gTool, gpc, gProc, gOut, gTimer, gResult, tuiVars,
                   asmVars, cmpVars, wireVars, xmlVars, execVars, toolVars, startVars>>

\* the timer set at git_grep.go:68, git_ls_files.go:91 expires
GitTimerFire ==
    /\ gTimer = "armed"
    /\ gTimer' = "fired"
    /\ UNCHANGED <<gTool, gpc, ggpc, gProc, gOut, gOutput, gErrChan, gResult,
                   tuiVars, asmVars, cmpVars, wireVars, xmlVars, execVars,
                   toolVars, startVars>>

\* case out := <-output (git_grep.go:90-97, git_ls_files.go:113-123): the
\* text "No matches found" is passed on, an empty output of git ls-files
\* becomes "No files found"
GitSelectOutput ==
    /\ gpc = "select"
    /\ gOutput # <<>>
    /\ LET item == Head(gOutput)
           out == Limited(item.len)
       IN gResult' =
            IF item.text = "nomatch" THEN ExecResult("nomatch", 0, FALSE, FALSE)
            ELSE IF gTool = "git_ls_files" /\ item.len = 0
                 THEN ExecResult("nofiles", 0, FALSE, FALSE)
            ELSE ExecResult("output", out.len, out.truncated, FALSE)
    /\ gOutput' = <<>>
    /\ gTimer' = Stopped(gTimer)
    /\ gpc' = "returned"
    /\ UNCHANGED <<gTool, ggpc, gProc, gOut, gErrChan, tuiVars, asmVars,
                   cmpVars, wireVars, xmlVars, execVars, toolVars, startVars>>

\* case err := <-errChan (git_grep.go:99-102, git_ls_files.go:125-128)
GitSelectErr ==
    /\ gpc = "select"
    /\ gErrChan # <<>>
    /\ gResult' = ExecResult("failed", 0, FALSE, TRUE)
    /\ gErrChan' = <<>>
    /\ gTimer' = Stopped(gTimer)
    /\ gpc' = "returned"
    /\ UNCHANGED <<gTool, ggpc, gProc, gOut, gOutput, tuiVars, asmVars,
                   cmpVars, wireVars, xmlVars, execVars, toolVars, startVars>>

\* case <-timer.C (git_grep.go:104-114, git_ls_files.go:130-140).
\* cmd.Process is written by the goroutine and read here with nothing
\* ordering the two: seen says whether the caller sees the process.
GitSelectTimeout(seen) ==
    /\ gpc = "select"
    /\ gTimer = "fired"
    /\ seen => gProc \notin {"none", "nostart"}
    /\ gProc' = IF seen /\ gProc = "running" THEN "killed" ELSE gProc
    /\ gResult' = ExecResult("timeout", 0, FALSE, TRUE)
    /\ gpc' = "returned"
    /\ UNCHANGED <<gTool, ggpc, gOut, gTimer, gOutput, gErrChan, tuiVars,
                   asmVars, cmpVars, wireVars, xmlVars, execVars, toolVars, startVars>>

NextGit ==
    \/ \E tool \in GitTools, args \in GitArgs : GitBegin(tool, args)
    \/ \E ok \in BOOLEAN : GitStart(ok)
    \/ GitWrite
    \/ \E status \in ExitStatuses : GitExit(status)
    \/ GitWait
    \/ GitSend
    \/ GitTimerFire
    \/ GitSelectOutput
    \/ GitSelectErr
    \/ \E seen \in BOOLEAN : GitSelectTimeout(seen)

SpecGit == Init /\ [][NextGit]_vars

----------------------------------------------------------------------------
(* Properties of ExecuteCommand *)

\* the call has returned the timeout result
TimedOut == epc = "returned" /\ eResult.kind = "timeout"

\* a process started for the call is running
SubprocessRunning == eSh = "running" \/ eChildren > 0

\* C27: once the timer of a call of ExecuteCommand has expired the caller
\* can return the timeout result, and after the timeout result was returned
\* no process started for the call is running.
C27_TimeoutLeavesNoSubprocess ==
    /\ (epc = "select" /\ eTimer = "fired") => ENABLED SelectTimeout(FALSE)
    /\ TimedOut => ~SubprocessRunning

\* C35: when ExecuteCommand has returned for a command whose sh exited with
\* a nonzero status before the timeout, the result has Error set, whichever
\* channel the caller received from, and Output shows the failure: the
\* command's own output or, when it wrote none, the text "Command failed".
C35_NonzeroExitReported ==
    (epc = "returned" /\ eSh = "failed" /\ eResult.kind # "timeout")
        => /\ eResult.error
           /\ eResult.len = 0 => eResult.kind = "failed"

----------------------------------------------------------------------------
(* Properties of GitGrep and GitLsFiles *)

\* CombinedOutput returned an error that the tool does not treat as a
\* result: no git binary, or an exit status other than 0 (and, for git
\* grep, other than 1)
GitFailed ==
    \/ gProc \in {"nostart", "exit2", "exit128"}
    \/ gTool = "git_ls_files" /\ gProc = "exit1"

\* C36: whatever the outcome of the subprocess (exit status 0, 1, another
\* nonzero status, no git binary), once the goroutine is through the caller
\* waiting in the select has a value on one of the two channels, so that it
\* returns without waiting for the timer; and a failure that is not
\* reported as a timeout is reported with Error set.
C36_EveryOutcomeDelivered ==
    /\ (gpc = "select" /\ ggpc = "done" /\ gProc # "killed")
           => (gOutput # <<>> \/ gErrChan # <<>>)
    /\ (gpc = "returned" /\ GitFailed /\ gResult.kind # "timeout")
           => gResult.error

----------------------------------------------------------------------------
(* Properties of the tool registry *)

\* the seven tools of the registry
RegistryNames ==
    {"read_file", "write_file", "execute_command", "list_directory",
     "list_tools", "git_grep", "git_ls_files"}

\* the listing has an entry of that name
Mentions(listing, name) ==
    IF listing.format = "json"
    THEN \E i \in 1..Len(listing.json) : listing.json[i].name = name
    ELSE \E i \in 1..Len(listing.text) :
            listing.text[i].kind = "name" /\ listing.text[i].text = name

\* C30: a listing list_tools returned, in text or in JSON form, mentions each
\* of the seven tools of the registry; the tools offered with a request are
\* those the Executor dispatches; and no call of an offered tool is answered
\* with the unknown-tool error.
C30_RegistryListedOfferedDispatched ==
    /\ tListing # NoListing =>
           \A name \in RegistryNames : Mentions(tListing, name)
    /\ tOffered # <<>> => OfferedNames = DOMAIN NewExecutor
    /\ \A k \in 1..Len(tResults) :
           tCalls[k].name \in OfferedNames
               => tResults[k].output # UnknownToolText

\* both forms of the listing were produced in turn, and an offered tool and
\* a tool that was not offered have been dispatched
C30_Witness ==
    /\ tListing.format = "json"
    /\ Len(tResults) = 2
    /\ tCalls[1].name = "git_ls_files"
    /\ tResults[1].output = OkText
    /\ tCalls[2].name = "search_web"
    /\ tResults[2].output = UnknownToolText

----------------------------------------------------------------------------
(* Properties of the tool-call assembler *)

RECURSIVE ConcatArgs(_)
ConcatArgs(seen) ==
    IF seen = <<>> THEN <<>>
    ELSE Head(seen).frag.arguments \o ConcatArgs(Tail(seen))

AllOneSlot(seen) ==
    \A j, k \in 1..Len(seen) : seen[j].slot = seen[k].slot

\* C4, as stated: whenever all the N >= 1 fragments of a finished turn map
\* to one slot, the finalized list holds exactly one ToolCall and its
\* argument string is the concatenation of the fragments' argument texts in
\* arrival order.
C4_OneSlotOneCall ==
    (asmDone = "finished" /\ Len(asmSeen) >= 1 /\ AllOneSlot(asmSeen))
    => /\ Len(asmOut) = 1
       /\ asmOut[1].arguments = ConcatArgs(asmSeen)

\* C4, amended: whenever all the N >= 1 fragments of a finished turn map to
\* one slot and the first of them carries an id, the finalized list holds
\* exactly one ToolCall, and its argument string is the concatenation of the
\* fragments' argument texts in arrival order, or {} when that concatenation
\* is empty.
C4_OneSlotDeclaredFirst ==
    (/\ asmDone = "finished"
     /\ Len(asmSeen) >= 1
     /\ AllOneSlot(asmSeen)
     /\ asmSeen[1].frag.id # NoID)
    => /\ Len(asmOut) = 1
       /\ asmOut[1].arguments =
            IF ConcatArgs(asmSeen) = <<>> THEN <<"{", "}">>
            ELSE ConcatArgs(asmSeen)

\* a finished turn of three fragments at one slot, declared by the first,
\* whose argument texts were joined into one call
C4_Witness ==
    /\ asmDone = "finished"
    /\ Len(asmSeen) = 3
    /\ AllOneSlot(asmSeen)
    /\ asmSeen[1].frag.id # NoID
    /\ \A k \in 1..3 : asmSeen[k].frag.arguments # <<>>
    /\ Len(asmOut) = 1
    /\ Len(asmOut[1].arguments) = 3

\* the entries of seen that are the first id-bearing fragment of their slot
FirstDeclarations(seen) ==
    { k \in 1..Len(seen) :
        /\ seen[k].frag.id # NoID
        /\ \A j \in 1..(k - 1) :
             ~(seen[j].slot = seen[k].slot /\ seen[j].frag.id # NoID) }

\* C6: the first-seen id of a slot wins: the call declared first at a slot is
\* in the finalized list of the turn with its own id and name.
C6_FirstSeenIdWins ==
    asmDone = "finished" =>
      \A k \in FirstDeclarations(asmSeen) :
        \E n \in 1..Len(asmOut) :
          /\ asmOut[n].id = asmSeen[k].frag.id
          /\ asmOut[n].name = asmSeen[k].frag.name

\* the accumulator of slot t, empty when the slot has no builder
Acc(st, t) == IF t \in DOMAIN st.args THEN st.args[t] ELSE <<>>

\* the step appended text to the accumulator of slot t and to no other
AppendedAt(t, text) ==
    /\ Acc(asmSt', t) = Acc(asmSt, t) \o text
    /\ \A u \in (DOMAIN asmSt'.args \cup DOMAIN asmSt.args) \ {t} :
           Acc(asmSt', u) = Acc(asmSt, u)
    /\ asmSt'.byIndex = asmSt.byIndex

\* the assembler states the fragments of seen can lead to from st
RECURSIVE Replay(_, _)
Replay(st, seen) ==
    IF seen = <<>> THEN { st }
    ELSE UNION { Replay(s2, Tail(seen))
                 : s2 \in FragOutcomes(st, Head(seen).slot, Head(seen).frag) }

\* the final argument string of every declared call
FinalArgumentsOf(st) ==
    [idx \in DOMAIN st.byIndex |-> FinalArguments(st, idx)]

\* a step that consumed one chunk holding a single argument-only fragment
ArgumentOnlyStep ==
    /\ Len(asmSeen') = Len(asmSeen) + 1
    /\ asmSeen'[Len(asmSeen')].frag.id = NoID
    /\ asmSeen'[Len(asmSeen')].frag.arguments # <<>>

\* what C32 says an argument-only fragment does
ArgumentOnlyRouted ==
    LET e == asmSeen'[Len(asmSeen')]
        named == { t \in DOMAIN asmSt.byIndex :
                     asmSt.byIndex[t].name = e.frag.name }
    IN IF e.slot \in DOMAIN asmSt.byIndex
       THEN AppendedAt(e.slot, e.frag.arguments)
       ELSE IF named = {} THEN asmSt' = asmSt
       ELSE \E t \in named : AppendedAt(t, e.frag.arguments)

\* C32: an argument-only fragment is appended to the accumulator of its own
\* slot when the slot holds a declared call, else to the accumulator of
\* exactly one declared call of its function name, and is discarded only when
\* no declared call has that name; and the final argument strings are a
\* function of the fragment sequence.
C32_ArgumentOnlyFragment ==
    [][/\ ArgumentOnlyStep => ArgumentOnlyRouted
       /\ \A st \in Replay(EmptyAsm, asmSeen') :
              FinalArgumentsOf(st) = FinalArgumentsOf(asmSt')]_vars

----------------------------------------------------------------------------
(* Properties of the approval gate and the execution loop *)

AllowList == { AutoApprove[k] : k \in 1..Len(AutoApprove) }

ExecutedIds == { executed[k].call.id : k \in 1..Len(executed) }

\* the Execute invocations of command c, in the order they were made
ExecutedBy(c) == SelectSeq(executed, LAMBDA e : e.cmd = c)

ExecCmds == { c \in 1..Len(cmds) : cmds[c].kind = "exec" }

StreamCmds == { c \in 1..Len(cmds) : cmds[c].kind = "stream" }

\* the stream commands that have seen the terminal reason stop or tool_calls
FinishedCmds == { c \in StreamCmds : cmds[c].reason \in {"stop", "tool_calls"} }

\* C1: a call whose name is not on the auto-approve list is executed only
\* after the user accepted a batch awaiting approval that contained that very
\* call, and a command started without a human decision executes only
\* allow-listed calls.
C1_ExecutedOnlyApproved ==
    \A k \in 1..Len(executed) :
      /\ executed[k].call.name \notin AllowList
           => executed[k].call.id \in accepted
      /\ executed[k].origin = "auto"
           => executed[k].call.name \in AllowList

\* C2: Executor.Execute is invoked at most once per ToolCall.
C2_ExecutedAtMostOnce ==
    \A j, k \in 1..Len(executed) :
      executed[j].call.id = executed[k].call.id => j = k

\* the step in which Update handles a StreamOutput while calls are pending
GateStep(c) ==
    /\ c \in 1..Len(cmds)
    /\ cmds[c].pc = "returned"
    /\ cmds[c].msg = "StreamOutput"
    /\ cmds'[c].pc = "handled"
    /\ Len(pendingToolCalls) > 0

C5_DeclarationOrder ==
    /\ \A c \in FinishedCmds :
         [k \in 1..Len(cmds[c].calls) |-> cmds[c].calls[k].id] = cmds[c].declared
    /\ \A c \in ExecCmds :
         /\ \A k \in 1..Len(ExecutedBy(c)) :
              ExecutedBy(c)[k].call = cmds[c].calls[k]
         /\ \A k \in 1..Len(cmds[c].appended) :
              cmds[c].appended[k].toolCallID = cmds[c].calls[k].id

\* C7: the argument string of every finalized call is the accumulation of its
\* slot, or {} when nothing was accumulated, and no call with an empty
\* argument string is pending or was passed to Executor.Execute.
C7_ArgumentsNeverEmpty ==
    /\ \A c \in FinishedCmds :
         /\ Len(cmds[c].calls) = Cardinality(DOMAIN cmds[c].asm.byIndex)
         /\ \A k \in 1..Len(cmds[c].calls) :
              \E idx \in DOMAIN cmds[c].asm.byIndex :
                /\ cmds[c].asm.byIndex[idx].id = cmds[c].calls[k].id
                /\ cmds[c].calls[k].arguments =
                     IF idx \in DOMAIN cmds[c].asm.args
                        /\ cmds[c].asm.args[idx] # <<>>
                     THEN cmds[c].asm.args[idx]
                     ELSE <<"{", "}">>
    /\ \A k \in 1..Len(pendingToolCalls) : pendingToolCalls[k].arguments # <<>>
    /\ \A k \in 1..Len(executed) : executed[k].call.arguments # <<>>

\* a call declared without any argument text was executed with {}, and a call
\* whose arguments arrived in two fragments was executed with their join
C7_Witness ==
    /\ \E c \in FinishedCmds : \E idx \in DOMAIN cmds[c].asm.byIndex :
         /\ idx \notin DOMAIN cmds[c].asm.args
         /\ cmds[c].asm.byIndex[idx].id \in ExecutedIds
    /\ \E k \in 1..Len(executed) : executed[k].call.arguments = <<"{", "}">>
    /\ \E k \in 1..Len(executed) : executed[k].call.arguments = <<"{", "k", "}">>

Continuations ==
    { c \in StreamCmds : cmds[c].origin = "continuation" /\ cmds[c].pc # "start"
                         /\ cmds[c].sent # <<>> }

\* C9: the history sent with a continuation request contains the tool-result
\* messages the execution loop appended for its batch.
C9_ContinuationCarriesResults ==
    \A c \in Continuations :
      \A j \in 1..Len(cmds[cmds[c].parent].appended) :
        \E n \in 1..Len(cmds[c].sent) :
          cmds[c].sent[n] = cmds[cmds[c].parent].appended[j]

\* the step in which a reject decision is taken
RejectStep ==
    /\ waitingForApproval
    /\ ~waitingForApproval'
    /\ Len(cmds') = Len(cmds)

\* C10: a reject decision clears the pending set and the waiting flag,
\* appends no message, executes nothing and starts no command.
C10_RejectFrame ==
    [][RejectStep =>
         /\ pendingToolCalls' = <<>>
         /\ messages' = messages
         /\ executed' = executed
         /\ cmds' = cmds]_vars

\* a batch was rejected: one turn has ended with calls that needed approval,
\* none of them ran, nothing is pending and no other command was started
C10_Witness ==
    /\ Len(cmds) = 1
    /\ cmds[1].pc = "handled"
    /\ Len(cmds[1].calls) > 0
    /\ pendingToolCalls = <<>>
    /\ ~waitingForApproval
    /\ executed = <<>>
    /\ \A k \in 1..Len(messages) : messages[k].role # "tool"

----------------------------------------------------------------------------
(* Properties of the turn controller *)

\* the step in which the stream command c sees a terminal reason
FinishStep(c) ==
    /\ Running(c, "stream", "streaming")
    /\ cmds'[c].pc = "returned"
    /\ IsFinish(cmds'[c].reason)

\* the step in which Update handles the StreamOutput of the stream command c
OutputHandled(c) ==
    /\ Returned(c, "StreamOutput")
    /\ cmds[c].kind = "stream"
    /\ cmds'[c].pc = "handled"

\* C11: the outcome of a turn follows the terminal reason of its stream: with
\* stop the turn finalizes no call and leaves the pending set alone, with
\* tool_calls the pending set becomes the finalized calls.
C11_OutcomeFollowsReason ==
    [][\A c \in CmdIds : FinishStep(c) =>
         /\ cmds'[c].reason = "stop"
              => /\ cmds'[c].calls = <<>>
                 /\ pendingToolCalls' = pendingToolCalls
         /\ cmds'[c].reason = "tool_calls"
              => pendingToolCalls' = cmds'[c].calls]_vars

\* the stream of c carried no text and no fragment and ended with stop
EmptyTurn(c) ==
    /\ c \in 1..Len(cmds)
    /\ cmds[c].kind = "stream"
    /\ cmds[c].reason = "stop"
    /\ cmds[c].fullContent = <<>>
    /\ cmds[c].declared = <<>>
    /\ DOMAIN cmds[c].asm.byIndex = {}

\* C12: a turn whose stream carries no text and no fragment and ends with
\* stop completes as Finished-Plain: its result is a StreamOutput, and when
\* Update handles it loading becomes false, no error is raised, no call is
\* pending and no command is started.
C12_EmptyTurnFinishesPlain ==
    [][\A c \in CmdIds : (EmptyTurn(c) /\ OutputHandled(c)) =>
         /\ ~loading'
         /\ err' = err
         /\ pendingToolCalls' = <<>>
         /\ Len(cmds') = Len(cmds)]_vars

\* the stream of c was closed without a terminal reason
ClosedTurn(c) ==
    /\ c \in 1..Len(cmds)
    /\ cmds[c].kind = "stream"
    /\ cmds[c].msg = "StreamOutput"
    /\ cmds[c].reason = ""

\* the step in which the stream command c finds its stream closed
CloseStep(c) ==
    /\ Running(c, "stream", "streaming")
    /\ cmds[c].stream = <<>>
    /\ cmds'[c] # cmds[c]

\* the ids of the calls recorded in the assistant messages of msgs
RecordedIds(msgs) == UNION { IdsOf(msgs[k].toolCalls) : k \in 1..Len(msgs) }

\* the ids of the calls executed
RunIds(log) == { log[k].call.id : k \in 1..Len(log) }

\* C40: a step that assigns a non-empty pending set is the step of a stream
\* command that saw finish_reason stop or tool_calls, and assigns the list
\* it finalized; and the calls declared by a stream that closed without
\* such a reason are neither pending, nor executed, nor recorded in an
\* assistant message of the history.
C40_PendingOnlyFromFinishedStream ==
    [][/\ (pendingToolCalls' # pendingToolCalls /\ pendingToolCalls' # <<>>)
            => \E c \in 1..Len(cmds) :
                   /\ Running(c, "stream", "streaming")
                   /\ cmds'[c].pc = "returned"
                   /\ IsFinish(cmds'[c].reason)
                   /\ pendingToolCalls' = cmds'[c].calls
       /\ \A c \in 1..Len(cmds') :
              (cmds'[c].kind = "stream" /\ cmds'[c].msg = "StreamOutput"
                 /\ cmds'[c].reason = "")
                  => \A k \in 1..Len(cmds'[c].declared) :
                         cmds'[c].declared[k] \notin
                             (IdsOf(pendingToolCalls') \cup RunIds(executed')
                                \cup RecordedIds(messages'))]_vars

\* a stream that declared a call was closed without a terminal reason, its
\* result has been handled and the turn is at rest with nothing executed
C40_Witness ==
    \E c \in 1..Len(cmds) :
        /\ ClosedTurn(c)
        /\ cmds[c].pc = "handled"
        /\ Len(cmds[c].declared) > 0
        /\ DOMAIN cmds[c].asm.byIndex # {}
        /\ ~loading /\ ~waitingForApproval /\ pendingToolCalls = <<>>
        /\ executed = <<>>

\* C13: a stream that closes without a terminal reason ends as a plain
\* finish: the command returns a StreamOutput and no error, the history keeps
\* the text accumulated so far, and when Update handles the result loading
\* becomes false, no error is raised and no command is started.
C13_ClosedStreamFinishesPlain ==
    [][\A c \in CmdIds :
         /\ CloseStep(c) => /\ cmds'[c].msg = "StreamOutput"
                            /\ messages' = messages
         /\ (ClosedTurn(c) /\ OutputHandled(c)) =>
              /\ ~loading'
              /\ err' = err
              /\ messages' = messages
              /\ Len(cmds') = Len(cmds)]_vars

\* the step in which the stream command c receives an error event
ErrorStep(c) ==
    /\ Running(c, "stream", "streaming")
    /\ cmds'[c].msg = "errorMsg"

\* the step in which Update handles the errorMsg of the command c
ErrorHandled(c) ==
    /\ Returned(c, "errorMsg")
    /\ cmds'[c].pc = "handled"

\* C14: a failed dispatch or an error event ends the turn idle with the
\* error recorded: the error step and its handling leave the history as it
\* is, the handling sets loading to false, records the error and starts no
\* command, and nothing of the stream is consumed after the error.
C14_ErrorEndsTurn ==
    [][\A c \in CmdIds :
         /\ ErrorStep(c) => messages' = messages
         /\ ErrorHandled(c) => /\ ~loading'
                               /\ err'
                               /\ messages' = messages
                               /\ Len(cmds') = Len(cmds)
         /\ (c \in 1..Len(cmds) /\ cmds[c].msg = "errorMsg")
              => /\ cmds'[c].stream = cmds[c].stream
                 /\ cmds'[c].fullContent = cmds[c].fullContent]_vars

\* a stream failed after text had arrived: the error is recorded, nothing is
\* loading, the text is the last message of the history and the rest of the
\* stream was not consumed
C14_Witness ==
    \E c \in StreamCmds :
      /\ cmds[c].pc = "handled"
      /\ cmds[c].msg = "errorMsg"
      /\ cmds[c].fullContent = <<"t">>
      /\ cmds[c].stream # <<>>
      /\ err
      /\ ~loading
      /\ messages[Len(messages)].role = "assistant"
      /\ messages[Len(messages)].content = <<"t">>

\* a stream command whose request has been sent
Dispatched(c) ==
    /\ c \in StreamCmds
    /\ cmds[c].pc \in {"streaming", "returned", "handled"}
    /\ cmds[c].sent # <<>>

\* the message is among msgs
Among(msg, msgs) == \E k \in 1..Len(msgs) : msgs[k] = msg

\* C38: when ReadAgentsMD found an AGENTS.md at start-up its content is a
\* system message of the session's history, and every request sent since
\* contains that message.
C38_AgentsMDInEveryRequest ==
    agentsMD = "found" =>
        /\ Among(NewSystemMessage(<<"A">>), sessionMessages)
        /\ \A c \in 1..Len(cmds) :
               Dispatched(c) => Among(NewSystemMessage(<<"A">>), cmds[c].sent)

\* every ToolCall of an assistant message of msgs is answered by a later
\* tool message with its id
NoDangling(msgs) ==
    \A k \in 1..Len(msgs) :
        msgs[k].role = "assistant" =>
            \A j \in 1..Len(msgs[k].toolCalls) :
                \E t \in (k + 1)..Len(msgs) :
                    /\ msgs[t].role = "tool"
                    /\ msgs[t].toolCallID = msgs[k].toolCalls[j].id

\* C39: in the history of every request dispatched, every ToolCall of an
\* assistant message is answered by a later tool message with the same id.
C39_NoDanglingToolCalls ==
    \A c \in 1..Len(cmds) : Dispatched(c) => NoDangling(cmds[c].sent)

\* loading is false, no batch awaits approval and nothing is pending
AtRest == ~loading /\ ~waitingForApproval /\ pendingToolCalls = <<>>

\* C37: under the fairness of SpecLive (every command runs on, Update
\* handles every message returned, the user decides every approval prompt,
\* a continuation is answered with no tool calls) a turn that was started
\* eventually reaches the state with loading false, no batch awaiting
\* approval and an empty pending set.
C37_TurnReachesIdle == (Len(cmds) > 0) ~> AtRest

\* the turn went through an execution and a continuation and came to rest
C37_Witness ==
    /\ AtRest
    /\ Len(cmds) = 3
    /\ \A c \in 1..3 : cmds[c].pc = "handled"
    /\ cmds[2].kind = "exec"
    /\ cmds[3].origin = "continuation"
    /\ Len(executed) > 0

\* no command is running, no batch awaits approval and nothing is pending
Idle ==
    /\ \A c \in 1..Len(cmds) : cmds[c].pc = "handled"
    /\ ~waitingForApproval
    /\ pendingToolCalls = <<>>

\* C17: a new turn starts only when the previous turn has reached Idle.
C17_NewTurnOnlyWhenIdle ==
    [][(Len(cmds') = Len(cmds) + 1 /\ cmds'[Len(cmds')].origin = "user")
          => Idle]_vars

\* C19: the history is never empty and its element 0 is the system preamble
\* of the session start, in the model's history and in every request sent.
C19_PreambleKept ==
    /\ Len(messages) >= 1
    /\ messages[1] = NewSystemMessage(SystemPrompt)
    /\ \A c \in StreamCmds :
         cmds[c].sent # <<>> => cmds[c].sent[1] = NewSystemMessage(SystemPrompt)

\* a request was sent with a history that compaction had shortened to the
\* preamble and a summary
C19_Witness ==
    \E c \in StreamCmds :
      /\ Len(cmds[c].sent) = 2
      /\ cmds[c].sent[1] = NewSystemMessage(SystemPrompt)
      /\ cmds[c].sent[2].role = "system"
      /\ cmds[c].origin = "continuation"

\* the command c is consuming its stream before and after the step
StreamingStep(c) ==
    /\ Running(c, "stream", "streaming")
    /\ cmds'[c].pc = "streaming"

\* the step in which the command c consumed a text delta
TextDeltaStep(c) ==
    /\ StreamingStep(c)
    /\ cmds'[c].fullContent # cmds[c].fullContent

\* C33: after each text delta of a streaming turn the last message of the
\* history is an assistant message that was not in the history when the
\* request was sent and whose content is the concatenation of the turn's
\* text fragments so far; and while the turn streams, the messages that were
\* in the history when its request was sent stay in place unmodified.
C33_InProgressMessage ==
    [][\A c \in 1..Len(cmds) :
         /\ TextDeltaStep(c) =>
              /\ Len(messages') > Len(cmds[c].sent)
              /\ messages'[Len(messages')].role = "assistant"
              /\ messages'[Len(messages')].content = cmds'[c].fullContent
         /\ StreamingStep(c) =>
              /\ Len(messages') >= Len(cmds[c].sent)
              /\ SubSeq(messages', 1, Len(cmds[c].sent)) = cmds[c].sent]_vars

\* the step in which the execution command c leaves executePendingTools
ExecReturnStep(c) ==
    /\ Running(c, "exec", "clear")
    /\ cmds'[c].pc = "returned"

\* C25: the pending approval set exists only between the end of a turn with
\* calls and the decision on that batch: whenever waitingForApproval is true
\* the pending set is non-empty, is the batch the gate surfaced and loading
\* is false; after a reject, and after the execution that follows an
\* accept, the pending set is empty.
C25_PendingOnlyWhileAwaiting ==
    [][/\ waitingForApproval' =>
             /\ pendingToolCalls' # <<>>
             /\ pendingToolCalls' = awaiting'
             /\ ~loading'
       /\ RejectStep => pendingToolCalls' = <<>>
       /\ \A c \in CmdIds : ExecReturnStep(c) => pendingToolCalls' = <<>>]_vars

\* the step in which Update handles a result of the command c that arrives
\* while nothing is loading, the turn having been cancelled
LateResultHandled(c) ==
    /\ ~loading
    /\ \/ Returned(c, "StreamOutput")
       \/ Returned(c, "toolExecutionMsg")
    /\ cmds'[c].pc = "handled"

\* the step of Ctrl+C during loading
CancelStep == loading /\ ~loading' /\ cmds' = cmds

\* C26: Ctrl+C during loading sets loading to false and kills nothing (the
\* commands and the log of executions are as before), and the results of
\* the cancelled turn that arrive afterwards start no tool execution and no
\* continuation request.
C26_CancelEndsTurn ==
    [][/\ CancelStep => executed' = executed
       /\ \A c \in CmdIds : LateResultHandled(c) => Len(cmds') = Len(cmds)]_vars

----------------------------------------------------------------------------
(* Properties of Manager.Compact *)

\* C20 as stated: whenever the history holds more messages than max_messages,
\* the history returned by compaction holds at most max_messages messages
\* and has the same element 0, for every positive max_messages.
C20_CompactedWithinMax ==
    (cmpDone /\ Len(cmpIn) > cmpMax) =>
        /\ Len(cmpOut) <= cmpMax
        /\ cmpOut[1] = cmpIn[1]

\* C20: whenever the history holds more messages than max_messages and
\* max_messages is at least 3, the history returned by compaction holds at
\* most 2 + max_messages / 2 messages (integer division), which is at most
\* max_messages, and has the same element 0.
C20_CompactedWithinMaxFromThree ==
    (cmpDone /\ cmpMax >= 3 /\ Len(cmpIn) > cmpMax) =>
        /\ Len(cmpOut) <= 2 + cmpMax \div 2
        /\ Len(cmpOut) <= cmpMax
        /\ cmpOut[1] = cmpIn[1]

\* seven messages compacted under max_messages 4 to the preamble, the
\* summary and the two most recent messages
C20_Witness ==
    /\ cmpDone
    /\ cmpMax = 4
    /\ Len(cmpIn) = 7
    /\ Len(cmpOut) = 4
    /\ cmpOut[1] = cmpIn[1]
    /\ cmpOut[3] = cmpIn[6]
    /\ cmpOut[4] = cmpIn[7]

\* C21: a second Compact with the same budget on the result of a first
\* Compact does not shrink the history further, and message 0 is the same
\* before and after both passes.
C21_SecondPassNoShrinkage ==
    cmpAgainDone =>
        /\ Len(cmpAgain) = Len(cmpOut)
        /\ cmpOut[1] = cmpIn[1]
        /\ cmpAgain[1] = cmpIn[1]

\* the 0-based index at which the tail Compact keeps starts
RecentStart(n, maxMessages) ==
    IF n \div 2 < n - maxMessages \div 2 THEN n - maxMessages \div 2
    ELSE n \div 2

\* C31: a history of 3 or fewer messages is returned unchanged; for a longer
\* one Compact returns message 0, then exactly one summary system message
\* built from the messages from index 1 up to the midpoint, then the
\* messages from index max(midpoint, length - max_messages/2) to the end in
\* their order without the tool-role messages.
C31_CompactShape ==
    cmpDone =>
        LET n == Len(cmpIn)
            tail == SubSeq(cmpIn, RecentStart(n, cmpMax) + 1, n)
        IN IF n <= 3 THEN cmpOut = cmpIn
           ELSE /\ cmpOut[1] = cmpIn[1]
                /\ cmpOut[2] = summarizeMessages(SubSeq(cmpIn, 2, n \div 2))
                /\ cmpOut[2].role = "system"
                /\ SubSeq(cmpOut, 3, Len(cmpOut))
                       = SelectSeq(tail, LAMBDA msg : msg.role # "tool")

\* six messages under max_messages 4: the tail starts at index 4, its tool
\* message is dropped and the last message follows the summary
C31_Witness ==
    /\ cmpDone
    /\ cmpMax = 4
    /\ Len(cmpIn) = 6
    /\ cmpIn[5].role = "tool"
    /\ cmpIn[6].role = "assistant"
    /\ Len(cmpOut) = 3
    /\ cmpOut[3] = cmpIn[6]

\* only assistant messages carry ToolCalls, and every tool-role message
\* carries the id of a ToolCall of an earlier assistant message
Correlated(msgs) ==
    \A i \in 1..Len(msgs) :
      /\ Len(msgs[i].toolCalls) > 0 => msgs[i].role = "assistant"
      /\ msgs[i].role = "tool" =>
           \E j \in 1..(i - 1) :
             /\ msgs[j].role = "assistant"
             /\ \E k \in 1..Len(msgs[j].toolCalls) :
                  msgs[j].toolCalls[k].id = msgs[i].toolCallID

\* C24: compaction keeps the history correlated: when only assistant
\* messages of a history carry ToolCalls and every tool-role message has the
\* id of a ToolCall of an earlier assistant message, the same holds of what
\* Compact and every strategy of CompactWithStrategy return for it.
C24_CompactionKeepsCorrelation ==
    Correlated(cmpIn) =>
        /\ cmpDone => Correlated(cmpOut)
        /\ cmpStrategy # "" => Correlated(cmpStratOut)

\* the compaction condition of the specification: estimated tokens above
\* max_tokens times compaction_ratio, or more messages than max_messages
BudgetExceeded(msgs) ==
    \/ GetTokenUsage(msgs) > CompactionThreshold
    \/ Len(msgs) > ContextMaxMessages

\* the step in which the command c of processMessage passes its compaction
\* check and dispatches or fails to dispatch
SendStep(c) ==
    /\ Running(c, "stream", "start")
    /\ cmds'[c].pc # "start"

\* C22: before every send, with auto_compact enabled, the history is
\* compacted exactly when the estimated tokens exceed the threshold or the
\* message count exceeds max_messages; with auto_compact disabled never.
C22_CompactedWhenBudgetExceeded ==
    [][\A c \in CmdIds : SendStep(c) =>
         messages' = IF ContextAutoCompact /\ BudgetExceeded(messages)
                     THEN Compact(messages)
                     ELSE messages]_vars

----------------------------------------------------------------------------
(* Properties of the wire decoder and its consumer *)

\* the text of the well-formed frames from line k up to the terminal-reason
\* frame, the [DONE] line or the end of the body
RECURSIVE TextUpTo(_, _)
TextUpTo(body, k) ==
    IF k > Len(body) \/ body[k].kind = "done" THEN <<>>
    ELSE IF body[k].kind # "data" THEN TextUpTo(body, k + 1)
    ELSE IF IsFinish(body[k].chunk.finish) THEN body[k].chunk.content
    ELSE body[k].chunk.content \o TextUpTo(body, k + 1)

BadCount(body) == Cardinality({ k \in 1..Len(body) : body[k].kind = "bad" })

\* processStreamNew has returned
TurnEnded == wcpc \in {"returned", "handled"}

\* C15: a single malformed frame does not abort the stream: when the turn of
\* a body with one malformed frame and no read error has ended, it ended
\* without an error and the text of the well-formed frames, those after the
\* malformed one included, is the accumulated text of the turn.
C15_MalformedFrameSkipped ==
    (TurnEnded /\ BadCount(wBody) = 1 /\ wEnd = "eof") =>
        /\ wcMsg = "StreamOutput"
        /\ wContent = TextUpTo(wBody, 1)

\* C16: the response body is closed at most once, and the decoder is never
\* left at its send on the channel after the consumer has stopped
\* receiving, a state it cannot leave and in which the body is never closed.
C16_BodyReleasedOnce ==
    /\ wClosed <= 1
    /\ ~(TurnEnded /\ wpc \in {"send", "sendLast"})

\* the decoder has read the line data: [DONE]
DoneRead == \E k \in 1..wPos : wBody[k].kind = "done"

\* the event the decoder sends for a line
EventOf(line) ==
    IF line.kind = "bad" THEN WireError ELSE DataEvent(line.kind, line.chunk)

\* C34: after [DONE] the decoder has returned and closed the channel with no
\* event in flight and no line read after it; a failed read before [DONE]
\* puts exactly one error event on the channel, which its receiver takes
\* before the channel closes; a blank line puts no event on the channel; and
\* the events are those of the frames, in the order of the frames.
C34_GracefulVersusFailure ==
    /\ DoneRead => /\ wpc = "done"
                   /\ wEv = NoEvent
                   /\ wBody[wPos].kind = "done"
    /\ wpc = "done" => wEv = NoEvent
    /\ wpc = "sendLast" => /\ ~DoneRead
                           /\ wEnd = "reset"
                           /\ wPos = Len(wBody)
                           /\ wEv = WireError
                           /\ wcpc = "range"
    /\ wpc = "send" => /\ wBody[wPos].kind \in {"data", "usage", "bad"}
                       /\ wEv = EventOf(wBody[wPos])

\* C18: no tool starts before the stream of the turn has fully drained: when
\* executePendingTools makes its first Execute call the decoder goroutine
\* has returned.
C18_StreamDrainedBeforeTools ==
    [][(wxpc = "start" /\ wxpc' = "ran") => wpc = "done"]_vars

----------------------------------------------------------------------------
(* Properties of the fallback parser *)

KindCount(text, k) == Cardinality({ i \in 1..Len(text) : text[i].k = k })

\* xParsed is what parseXMLToolCalls returned for xText
ParsedText == xpc \in {"execute", "continue", "done"}

\* one pseudo-function tag and no parameter tag
OneTagNoParameter(text) ==
    /\ KindCount(text, "fnopen") = 1
    /\ KindCount(text, "fnclose") = 1
    /\ KindCount(text, "tcopen") = 0
    /\ KindCount(text, "paropen") = 0

\* C28: a finalized text containing a pseudo-function tag with no parameter
\* tags yields exactly one ToolCall whose argument string is {}, for every
\* function name and every tag body without a parameter tag.
C28_NoParameterEmptyObject ==
    (ParsedText /\ OneTagNoParameter(xText)) =>
        /\ Len(xParsed) = 1
        /\ xParsed[1].arguments = JSONObject(<<>>)

\* one function tag whose body is m >= 1 named parameter tags, each around
\* one piece of plain text
OnlyParameters(text) ==
    /\ Len(text) >= 5
    /\ (Len(text) - 2) % 3 = 0
    /\ text[1].k = "fnopen"
    /\ text[Len(text)].k = "fnclose"
    /\ \A j \in 0..((Len(text) - 2) \div 3 - 1) :
         /\ text[3 * j + 2].k = "paropen"
         /\ text[3 * j + 3].k = "word"
         /\ text[3 * j + 4].k = "parclose"

\* the indices of the opening parameter tags of such a text
ParameterTags(text) == { i \in 2..Len(text) : text[i].k = "paropen" }

\* C29: a text of one function tag whose body consists of named parameter
\* tags yields exactly one ToolCall with the function name of the tag and
\* the object that maps every parameter name of the body to its value.
C29_NamedParametersKept ==
    (ParsedText /\ OnlyParameters(xText)) =>
        /\ Len(xParsed) = 1
        /\ xParsed[1].name = xText[1].v
        /\ xParsed[1].arguments.kind = "object"
        /\ DOMAIN xParsed[1].arguments.map
             = { Key(xText[i].v) : i \in ParameterTags(xText) }
        /\ \A i \in ParameterTags(xText) :
             \E j \in ParameterTags(xText) :
               /\ xText[j].v = xText[i].v
               /\ xParsed[1].arguments.map[Key(xText[i].v)] = <<xText[j + 1]>>

\* the tool-role messages of a history that carry the id
ToolMessagesFor(msgs, id) ==
    { i \in 1..Len(msgs) : msgs[i].role = "tool" /\ msgs[i].toolCallID = id }

\* C23: after a tool-result message has been appended for a call id, the
\* tool-role message looked up by that id holds exactly the output supplied
\* for that call, over several turns and for the ids the fallback parser
\* assigns.
C23_LookupReturnsOutput ==
    \A k \in 1..Len(xLog) :
      /\ ToolMessagesFor(xMessages, xLog[k].id) # {}
      /\ \A i \in ToolMessagesFor(xMessages, xLog[k].id) :
           xMessages[i].content = xLog[k].output

====
